---- MODULE Spec2Model ----
(***************************************************************************)
(* A model of the sponge/symbiont discrete-event simulation:               *)
(*   event_list.py  - Event, EventList (binary heap + finder dictionary)   *)
(*   sponge.py      - Cell, Sponge                                         *)
(*   symbiont.py    - Symbiont life-cycle handlers                         *)
(*   simulation.py  - Simulation.run, the driver loop                      *)
(* Python object references are modelled by integer handles: an Event is   *)
(* its creation number, a Symbiont is its id.  An exception that leaves a  *)
(* handler is recorded in err and ends the run.                            *)
(***************************************************************************)
EXTENDS Integers, Sequences, FiniteSets, TLC

VARIABLES
    heap,          \* EventList._heap: the heapq array, a sequence of Event handles
    events,        \* the Event objects: handle -> [time, type, symbiont]
    event_finder,  \* EventList._event_finder: <<time, type, id>> -> Event handle
    event_cnt,     \* Event._event_cnt
    current_time,  \* Simulation._current_time
    err,           \* the exception that ended the run, "" while it runs
    last,          \* the call made last and what it returned
    symbionts,     \* the Symbiont objects: id -> fields
    cells,         \* Sponge._cells: cell -> [symbionts, next_event_time]
    count,         \* Symbiont._count
    num_symbionts  \* Simulation._num_symbionts

vars == <<heap, events, event_finder, event_cnt, current_time, err, last,
          symbionts, cells, count, num_symbionts>>

life_vars == <<symbionts, cells, count, num_symbionts>>

-----------------------------------------------------------------------------
(* Bounds of the model *)
MaxTime   == 1    \* event times are drawn from 0..MaxTime
MaxEvents == 4    \* Event objects created in one run of the calendar alone
MaxSymbionts == 4   \* Symbiont objects created in one run
MaxArrivals == 3    \* arrivals from the pool in one run
EndTime   == 3    \* Parameters.MAX_SIMULATED_TIME: events at or after it are not dispatched

-----------------------------------------------------------------------------
(* The configuration the model runs: parameters.py and the clade input.
   Amounts of photosynthate are integers, in a unit small enough for every
   halving and every mutation of a bank to be exact; times are integers. *)
NumLevels  == 1       \* Parameters.NUM_LEVELS
NumRows    == 2       \* Parameters.NUM_ROWS
NumCols    == 1       \* Parameters.NUM_COLS
MaxPerCell == 2       \* max_per_cell of Sponge.__init__
NumClades  == 2       \* Parameters.NUM_CLADES
INFINITY   == 1000    \* float('inf'): later than every time of the model

Unit == 20 ^ MaxSymbionts

HostCellDemand == 12 * Unit          \* Parameters.HOST_CELL_DEMAND, not fuzzed
PPR == 12 * Unit                     \* Clade.getPPR(), not fuzzed
MCR == 6 * Unit                      \* Clade.getMCR(), not fuzzed nor mutated
PhotosyntheticReduction == 2         \* Clade.getPhotosyntheticReduction()
InitialSurplus == {6 * Unit}  \* draws of the gamma variate
G0Lengths == {1, 2}                  \* draws of the fuzzed G0 length
G1SG2MLength == 1                    \* the G1SG2M length, not fuzzed
ResidenceTimes == {2}             \* draws of the fuzzed residence time
DeleteriousPct == 50                 \* the deleterious variate, a percentage
BeneficialPct == 10                  \* the beneficial variate, a percentage

Cells == 1..(NumLevels * NumRows * NumCols)
Level(c) == (c - 1) \div (NumRows * NumCols)
Row(c)   == ((c - 1) \div NumCols) % NumRows
Col(c)   == (c - 1) % NumCols

-----------------------------------------------------------------------------
(* enums.py: EventType, with the values that order simultaneous events *)
EventTypeValue(type) ==
    CASE type = "ESCAPE"     -> 0
      [] type = "DIGESTION"  -> 1
      [] type = "END_G0"     -> 2
      [] type = "END_G1SG2M" -> 3
      [] type = "DENOUEMENT" -> 4
      [] type = "ARRIVAL"    -> 5
      [] type = "CANCELLED"  -> 6

LiveTypes == {"ESCAPE", "DIGESTION", "END_G0", "END_G1SG2M", "DENOUEMENT", "ARRIVAL"}

None == -1        \* Python's None, where a handle or an id is expected

-----------------------------------------------------------------------------
(* A comparison that ignores the kind of the events *)
EventLtNoType(E, a, b) ==
    \/ E[a].time < E[b].time
    \/ /\ E[a].time = E[b].time
       /\ a < b

(* event_list.py: Event.__lt__ on two Event handles, E the object store *)
EventLt(E, a, b) ==
    \/ E[a].time < E[b].time
    \/ /\ E[a].time = E[b].time
       /\ EventTypeValue(E[a].type) < EventTypeValue(E[b].type)
    \/ /\ E[a].time = E[b].time
       /\ EventTypeValue(E[a].type) = EventTypeValue(E[b].type)
       /\ a < b

(* heapq._siftdown(heap, startpos, pos): move the item at pos up towards
   startpos while it is smaller than its parent.  Positions are 1-based. *)
RECURSIVE SiftDown(_, _, _, _)
SiftDown(E, h, startpos, pos) ==
    IF pos > startpos /\ EventLt(E, h[pos], h[pos \div 2])
    THEN SiftDown(E, [h EXCEPT ![pos] = h[pos \div 2], ![pos \div 2] = h[pos]],
                  startpos, pos \div 2)
    ELSE h

(* heapq._siftup(heap, pos): bubble the smaller child up until a leaf is
   reached, then sift the displaced item back towards pos. *)
RECURSIVE SiftUpFrom(_, _, _, _)
SiftUpFrom(E, h, startpos, pos) ==
    LET childpos == 2 * pos
        rightpos == childpos + 1
        c == IF rightpos <= Len(h) /\ ~EventLt(E, h[childpos], h[rightpos])
             THEN rightpos ELSE childpos
    IN  IF childpos <= Len(h)
        THEN SiftUpFrom(E, [h EXCEPT ![pos] = h[c], ![c] = h[pos]], startpos, c)
        ELSE SiftDown(E, h, startpos, pos)

(* heapq.heappush(heap, item) *)
HeapPush(E, h, item) == SiftDown(E, Append(h, item), 1, Len(h) + 1)

(* heapq.heappop(heap) on a non-empty heap: the item returned and the heap left *)
HeapPop(E, h) ==
    LET lastelt == h[Len(h)]
        rest    == SubSeq(h, 1, Len(h) - 1)
    IN  IF rest = <<>>
        THEN [item |-> lastelt, heap |-> rest]
        ELSE [item |-> rest[1],
              heap |-> SiftUpFrom(E, [rest EXCEPT ![1] = lastelt], 1, 1)]

(* the key EventList files an Event under in _event_finder *)
EventKey(E, n) == <<E[n].time, E[n].type, E[n].symbiont>>

(* dict.pop(key) *)
DictPop(d, key) == [k \in (DOMAIN d) \ {key} |-> d[k]]

(* A pop that hands out whatever heappop gives, cancelled or not *)
PopNoSkip(E, h, finder) ==
    LET p == HeapPop(E, h)
    IN  [heap |-> p.heap, finder |-> finder, event |-> p.item, err |-> ""]

(* event_list.py: EventList.getNextEvent.  The loop pops until an Event that
   is not CANCELLED comes out; heappop on a list the loop has emptied raises
   IndexError, and the finder's pop of a key it does not hold raises KeyError.
   The result: the heap and finder left, the Event returned, the exception. *)
RECURSIVE PopLoop(_, _, _)
PopLoop(E, h, finder) ==
    IF h = <<>>
    THEN [heap |-> h, finder |-> finder, event |-> None, err |-> "IndexError"]
    ELSE LET p == HeapPop(E, h)
         IN  IF E[p.item].type # "CANCELLED"
             THEN IF EventKey(E, p.item) \in DOMAIN finder
                  THEN [heap |-> p.heap, finder |-> DictPop(finder, EventKey(E, p.item)),
                        event |-> p.item, err |-> ""]
                  ELSE [heap |-> p.heap, finder |-> finder,
                        event |-> None, err |-> "KeyError"]
             ELSE PopLoop(E, p.heap, finder)

getNextEvent(E, h, finder) ==
    IF Len(h) > 0
    THEN PopLoop(E, h, finder)
    ELSE [heap |-> h, finder |-> finder, event |-> None, err |-> ""]

-----------------------------------------------------------------------------
(* The calendar's operations as actions *)

Running == err = ""

(* the value of last before any call; a call that raises leaves its op only *)
NoCall == [op |-> "none", event |-> None, time |-> None, type |-> "None",
           symbiont |-> None, new_time |-> None,
           status |-> "None", child |-> None, bank |-> None, mutation |-> "None",
           branch |-> "None", coin |-> "None", cell |-> None]

Call(op, event, time, type, symbiont, new_time) ==
    [NoCall EXCEPT !.op = op, !.event = event, !.time = time, !.type = type,
                   !.symbiont = symbiont, !.new_time = new_time]

(* what getNextEvent returned: the Event and its fields, or None *)
Returned(E, event) ==
    IF event = None
    THEN [NoCall EXCEPT !.op = "pop"]
    ELSE Call("pop", event, E[event].time, E[event].type, E[event].symbiont, None)

(* Event(time, type, symbiont) followed by EventList.insertEvent(event):
   the Event is pushed first, then filed under its key; a symbiont of None
   has no getID, so the filing raises AttributeError after the push. *)
insertEvent(time, type, symbiont) ==
    /\ Running
    /\ event_cnt < MaxEvents
    /\ LET n == event_cnt
           E == (n :> [time |-> time, type |-> type, symbiont |-> symbiont]) @@ events
       IN  /\ events' = E
           /\ event_cnt' = n + 1
           /\ heap' = HeapPush(E, heap, n)
           /\ IF symbiont = None
              THEN /\ err' = "AttributeError"
                   /\ UNCHANGED event_finder
              ELSE /\ event_finder' = (<<time, type, symbiont>> :> n) @@ event_finder
                   /\ UNCHANGED err
           /\ last' = Call("insert", n, time, type, symbiont, None)
    /\ UNCHANGED current_time
    /\ UNCHANGED life_vars

(* EventList.getNextEvent, called by a client *)
popNext ==
    /\ Running
    /\ LET r == getNextEvent(events, heap, event_finder)
       IN  /\ heap' = r.heap
           /\ event_finder' = r.finder
           /\ err' = r.err
           /\ last' = Returned(events, r.event)
    /\ UNCHANGED <<events, event_cnt, current_time>>
    /\ UNCHANGED life_vars

(* simulation.py, the main loop: the next event is taken from the calendar
   and the clock is set to its time; the loop ends when there is none *)
dispatch ==
    /\ Running
    /\ LET r == getNextEvent(events, heap, event_finder)
       IN  /\ heap' = r.heap
           /\ event_finder' = r.finder
           /\ err' = r.err
           /\ current_time' = IF r.event = None THEN current_time ELSE events[r.event].time
           /\ last' = Returned(events, r.event)
    /\ UNCHANGED <<events, event_cnt>>
    /\ UNCHANGED life_vars

(* A cancel that passes over a key the finder does not hold *)
cancelEventSilent(time, type, symbiont_id) ==
    /\ Running
    /\ LET key == <<time, type, symbiont_id>>
       IN  IF key \in DOMAIN event_finder
           THEN /\ events' = [events EXCEPT ![event_finder[key]].type = "CANCELLED"]
                /\ event_finder' = DictPop(event_finder, key)
                /\ last' = Call("cancel", event_finder[key], time, type, symbiont_id, None)
           ELSE /\ last' = Call("cancel", None, time, type, symbiont_id, None)
                /\ UNCHANGED <<events, event_finder>>
    /\ UNCHANGED <<heap, event_cnt, current_time, err>>
    /\ UNCHANGED life_vars

(* EventList.cancelEvent(time, type_, symbiont_id) *)
cancelEvent(time, type, symbiont_id) ==
    /\ Running
    /\ LET key == <<time, type, symbiont_id>>
       IN  IF key \in DOMAIN event_finder
           THEN /\ events' = [events EXCEPT ![event_finder[key]].type = "CANCELLED"]
                /\ event_finder' = DictPop(event_finder, key)
                /\ last' = Call("cancel", event_finder[key], time, type, symbiont_id, None)
                /\ UNCHANGED err
           ELSE /\ err' = "KeyError"
                /\ last' = [NoCall EXCEPT !.op = "cancel"]
                /\ UNCHANGED <<events, event_finder>>
    /\ UNCHANGED <<heap, event_cnt, current_time>>
    /\ UNCHANGED life_vars

(* EventList.changeEventTime(old_time, new_time, type_, symbiont_id) *)
changeEventTime(old_time, new_time, type, symbiont_id) ==
    /\ Running
    /\ LET key == <<old_time, type, symbiont_id>>
       IN  IF key \in DOMAIN event_finder
           THEN IF events[event_finder[key]].time = old_time
                THEN /\ events' = [events EXCEPT ![event_finder[key]].time = new_time]
                     /\ last' = Call("change", event_finder[key], old_time, type,
                                      symbiont_id, new_time)
                     /\ UNCHANGED err
                ELSE /\ err' = "AssertionError"
                     /\ last' = [NoCall EXCEPT !.op = "change"]
                     /\ UNCHANGED events
           ELSE /\ err' = "KeyError"
                /\ last' = [NoCall EXCEPT !.op = "change"]
                /\ UNCHANGED events
    /\ UNCHANGED <<heap, event_finder, event_cnt, current_time>>
    /\ UNCHANGED life_vars

-----------------------------------------------------------------------------
Times == 0..MaxTime

(* EventList.__init__ and the class attributes of Event and Simulation *)
InitEventList ==
    /\ heap = <<>>
    /\ events = <<>>
    /\ event_finder = <<>>
    /\ event_cnt = 0
    /\ current_time = 0
    /\ err = ""
    /\ last = NoCall

(* and no Symbiont yet in the cells of the Sponge *)
InitCalendar ==
    /\ InitEventList
    /\ symbionts = <<>>
    /\ cells = [c \in Cells |-> [symbionts |-> <<>>, next_event_time |-> None]]
    /\ count = 0
    /\ num_symbionts = 0

Kinds == {"DIGESTION", "END_G0"}

(* Inserts and pops only, with any times and owners *)
Insert == \E t \in Times, k \in Kinds, s \in {0, None} :
              insertEvent(t, k, s)

Pop == popNext

NextHeap == Insert \/ Pop

SpecHeap == InitCalendar /\ [][NextHeap]_vars

(* the kind of event the symbiont code cancels and moves *)
CancelKinds == {"DIGESTION"}

(* Inserts of events that are not in the past, cancels and pops *)
Schedule == \E t \in Times, k \in CancelKinds :
                t >= current_time /\ insertEvent(t, k, 0)

Cancel == \E t \in Times, k \in CancelKinds : cancelEvent(t, k, 0)

NextCancel == Schedule \/ Cancel \/ Pop

SpecCancel == InitCalendar /\ [][NextCancel]_vars

(* The calendar as the driver loop uses it: the handlers of an iteration
   schedule, cancel and move events that are not in the past *)
ChangeTime == \E t \in Times, n \in Times, k \in CancelKinds :
                  n >= current_time /\ changeEventTime(t, n, k, 0)

Dispatch == dispatch

NextDriver == Schedule \/ Cancel \/ ChangeTime \/ Dispatch

SpecDriver == InitCalendar /\ [][NextDriver]_vars

-----------------------------------------------------------------------------
(* The objects of a run as one value, which the methods below take and
   return; err is the exception a method raised, and what it had changed
   before raising stays changed. *)
World ==
    [symbionts |-> symbionts, cells |-> cells, count |-> count,
     heap |-> heap, events |-> events, event_finder |-> event_finder,
     event_cnt |-> event_cnt, err |-> "",
     status |-> "None", child |-> None, bank |-> None, mutation |-> "None",
     branch |-> "None", coin |-> "None"]

Raise(w, e) == [w EXCEPT !.err = e]

Contains(q, x) == \E i \in 1..Len(q) : q[i] = x

(* list.remove(x) *)
ListRemove(q, x) ==
    LET i == CHOOSE j \in 1..Len(q) : q[j] = x /\ \A k \in 1..(j - 1) : q[k] # x
    IN  SubSeq(q, 1, i - 1) \o SubSeq(q, i + 1, Len(q))

-----------------------------------------------------------------------------
(* sponge.py: Cell *)

(* Cell.updateNextEventTime(arriving_symbiont): the least next event time
   among the occupants and the arriving symbiont, INFINITY when there are none *)
updateNextEventTime(w, cell, arriving_symbiont) ==
    IF arriving_symbiont # None /\ Contains(w.cells[cell].symbionts, arriving_symbiont)
    THEN Raise(w, "AssertionError")
    ELSE LET ids == IF arriving_symbiont = None
                    THEN w.cells[cell].symbionts
                    ELSE Append(w.cells[cell].symbionts, arriving_symbiont)
             T   == {w.symbionts[ids[i]].next_event_time : i \in 1..Len(ids)} \cup {INFINITY}
         IN  [w EXCEPT !.cells[cell].next_event_time =
                           CHOOSE t \in T : \A u \in T : t <= u]

(* Cell.isRoomFor(which_clade) on what it reads of the cell: the clades of
   the occupants, in the order of self._symbionts, and max_occupants.  The
   result: [value, err]. *)
roomFor(clades, max_occupants, which_clade) ==
    IF Len(clades) = 0 THEN [value |-> TRUE, err |-> ""]
    ELSE IF Len(clades) = max_occupants THEN [value |-> FALSE, err |-> ""]
    ELSE IF \E i \in 2..Len(clades) : clades[i] # clades[1]
    THEN [value |-> FALSE, err |-> "AssertionError"]
    ELSE [value |-> which_clade = clades[1], err |-> ""]

(* getCladeNumber() of the occupants of a cell, in the order of the list *)
cladesIn(w, cell) ==
    [i \in 1..Len(w.cells[cell].symbionts) |->
        w.symbionts[w.cells[cell].symbionts[i]].clade_number]

(* Cell.isRoomFor(which_clade) raises when the occupants are of two clades *)
isRoomForRaises(w, cell) ==
    roomFor(cladesIn(w, cell), MaxPerCell, None).err # ""

(* Cell.isRoomFor(which_clade) *)
isRoomFor(w, cell, which_clade) ==
    roomFor(cladesIn(w, cell), MaxPerCell, which_clade).value

(* Cell.removeSymbiont(symbiont) *)
removeSymbiont(w, cell, symbiont) ==
    IF w.err # "" THEN w
    ELSE IF ~Contains(w.cells[cell].symbionts, symbiont)
    THEN Raise(w, "AssertionError")
    ELSE updateNextEventTime(
             [w EXCEPT !.cells[cell].symbionts = ListRemove(@, symbiont)], cell, None)

(* An insertion that does not look at the number of occupants *)
addSymbiontUnchecked(w, cell, symbiont) ==
    IF w.err # "" THEN w
    ELSE updateNextEventTime(
             [w EXCEPT !.cells[cell].symbionts = Append(@, symbiont)], cell, None)

(* Cell.addSymbiont(symbiont) *)
addSymbiont(w, cell, symbiont) ==
    IF w.err # "" THEN w
    ELSE IF ~(Len(w.cells[cell].symbionts) < MaxPerCell)
    THEN Raise(w, "AssertionError")
    ELSE updateNextEventTime(
             [w EXCEPT !.cells[cell].symbionts = Append(@, symbiont)], cell, None)

-----------------------------------------------------------------------------
(* symbiont.py: Symbiont *)

(* Symbiont._getState *)
getState(s) ==
    CASE s.prev_event_type = "ARRIVAL"    -> "IN_G0"
      [] s.prev_event_type = "END_G0"     -> "IN_G1SG2M"
      [] s.prev_event_type = "END_G1SG2M" -> "IN_G0"

(* Symbiont._setNextEvent: the earliest of the five times; of equal times
   the one tested first stays *)
setNextEvent(s) ==
    LET a == [time |-> s.time_of_next_end_g0, type |-> "END_G0"]
        b == IF s.time_of_next_end_g1sg2m < a.time
             THEN [time |-> s.time_of_next_end_g1sg2m, type |-> "END_G1SG2M"] ELSE a
        c == IF s.time_of_escape < b.time
             THEN [time |-> s.time_of_escape, type |-> "ESCAPE"] ELSE b
        d == IF s.time_of_digestion < c.time
             THEN [time |-> s.time_of_digestion, type |-> "DIGESTION"] ELSE c
        e == IF s.time_of_denouement < d.time
             THEN [time |-> s.time_of_denouement, type |-> "DENOUEMENT"] ELSE d
    IN  [s EXCEPT !.next_event_time = e.time, !.next_event_type = e.type]

(* Symbiont.cancelEventWithinSymbiont(event_type) *)
cancelEventWithinSymbiont(w, id, event_type) ==
    IF w.err # "" THEN w
    ELSE IF event_type \notin {"DIGESTION", "ESCAPE"}
    THEN Raise(w, "AssertionError")
    ELSE [w EXCEPT !.symbionts[id] =
             setNextEvent(IF event_type = "DIGESTION"
                          THEN [@ EXCEPT !.time_of_digestion = INFINITY]
                          ELSE [@ EXCEPT !.time_of_escape = INFINITY])]

(* A projection that charges the whole demand of the cell to each occupant *)
surplusAtEventEndUnshared(photosynthate_surplus, production_rate, demand, mitotic_cost_rate, state, this_time, next_time, num, esc) ==
    [surplus_at_end |-> photosynthate_surplus
                            + (next_time - this_time) * production_rate
                            - (next_time - this_time) * demand
                            - (IF state = "IN_G1SG2M"
                               THEN (next_time - this_time) * mitotic_cost_rate ELSE 0),
     t_d |-> None, t_d_rem |-> 0, t_ee |-> None, err |-> ""]

(* The computation of Symbiont._computeSurplusAtEventEnd on what it reads of
   the symbiont and its cell: the bank, the production rate, the demand of
   the cell, the mitotic cost rate and the state (_getState()), with
   num = len(symbionts_in_cell).  esc is the draw of the escape coin and of
   the escape time: "no" when the coin is lost, "early" and "late" for an
   escape at the start and at the end of [this_time, t_d).  The digestion
   time is t_d + t_d_rem / (s_c - s_e): t_d is its integer part and t_d_rem
   what the rounding down drops.
   The result: [surplus_at_end, t_d, t_d_rem, t_ee, err]. *)
surplusAtEventEnd(photosynthate_surplus, production_rate, demand, mitotic_cost_rate, state, this_time, next_time, num, esc) ==
    LET time_diff == next_time - this_time
        produced  == time_diff * production_rate
        demanded  == time_diff * (demand \div num)
        expended  == IF state = "IN_G1SG2M" THEN time_diff * mitotic_cost_rate ELSE 0
        surplus_at_end == photosynthate_surplus + produced - demanded - expended
        t_d  == this_time + (photosynthate_surplus * time_diff)
                                \div (photosynthate_surplus - surplus_at_end)
        rem  == (photosynthate_surplus * time_diff)
                    % (photosynthate_surplus - surplus_at_end)
        t_ee == IF esc = "late" /\ t_d > this_time THEN t_d - 1 ELSE this_time
        res(e, d, r, x) == [surplus_at_end |-> surplus_at_end, t_d |-> d,
                            t_d_rem |-> r, t_ee |-> x, err |-> e]
    IN  IF num = 0 THEN res("ZeroDivisionError", None, 0, None)
        ELSE IF ~(surplus_at_end < 0) THEN res("", None, 0, None)
        ELSE IF ~(time_diff > 0) THEN res("AssertionError", None, 0, None)
        ELSE IF surplus_at_end = photosynthate_surplus
        THEN res("ZeroDivisionError", None, 0, None)
        ELSE IF state # "IN_G0" THEN res("AttributeError", None, 0, None)
        ELSE IF esc = "no" THEN res("", t_d, rem, None)
        ELSE res("", t_d, rem, t_ee)

(* Symbiont._computeSurplusAtEventEnd(this_time, next_time, symbionts_in_cell)
   for the symbiont s, with num = len(symbionts_in_cell) *)
computeSurplusAtEventEnd(s, this_time, next_time, num, esc) ==
    IF s.cell = None
    THEN [surplus_at_end |-> 0, t_d |-> None, t_d_rem |-> 0, t_ee |-> None,
          err |-> "AttributeError"]
    ELSE surplusAtEventEnd(s.photosynthate_surplus, s.production_rate,
                           HostCellDemand, MCR, getState(s),
                           this_time, next_time, num, esc)

(* the loop of Symbiont._projectSurplusForAll over cell_symbionts, from the
   i-th on *)
RECURSIVE projectLoop(_, _, _, _, _, _, _)
projectLoop(w, ids, i, next_event_time, update_events, update_bank, esc) ==
    IF w.err # "" \/ i > Len(ids) THEN w
    ELSE LET symb == w.symbionts[ids[i]]
             r == computeSurplusAtEventEnd(symb, symb.prev_update_time,
                                           next_event_time, Len(ids), esc)
             neg == r.surplus_at_end < 0
             s1 == IF update_events /\ neg
                   THEN [symb EXCEPT !.time_of_digestion = r.t_d,
                                     !.time_of_escape =
                                         IF r.t_ee # None THEN r.t_ee ELSE @]
                   ELSE symb
             s2 == IF update_bank
                   THEN [s1 EXCEPT !.photosynthate_surplus = r.surplus_at_end,
                                   !.prev_update_time = next_event_time]
                   ELSE s1
         IN  IF r.err # "" THEN Raise(w, r.err)
             ELSE IF ~update_events /\ neg THEN Raise(w, "AssertionError")
             ELSE projectLoop([w EXCEPT !.symbionts[ids[i]] = s2], ids, i + 1,
                              next_event_time, update_events, update_bank, esc)

(* Symbiont._projectSurplusForAll(next_event_time, update_events, update_bank,
   arriving_symbiont) *)
projectSurplusForAll(w, self, next_event_time, update_events, update_bank, arriving_symbiont, esc) ==
    IF w.err # "" THEN w
    ELSE IF w.symbionts[self].cell = None THEN Raise(w, "AttributeError")
    ELSE LET q == w.cells[w.symbionts[self].cell].symbionts
         IN  IF arriving_symbiont # None
                 /\ (Contains(q, arriving_symbiont) \/ arriving_symbiont # self)
             THEN Raise(w, "AssertionError")
             ELSE projectLoop(w,
                      IF arriving_symbiont = None THEN q ELSE Append(q, arriving_symbiont),
                      1, next_event_time, update_events, update_bank, esc)

(* Symbiont._projectToSymbiontNextEvent(now, next_event_time,
   next_event_type) *)
projectToSymbiontNextEvent(w, self, now, next_event_time, next_event_type, esc) ==
    IF w.err # "" THEN w
    ELSE IF next_event_type \notin {"END_G0", "END_G1SG2M"} THEN Raise(w, "AssertionError")
    ELSE IF w.symbionts[self].cell = None THEN Raise(w, "AttributeError")
    ELSE LET s == w.symbionts[self]
             r == computeSurplusAtEventEnd(s, now, next_event_time,
                                           Len(w.cells[s.cell].symbionts), esc)
         IN  IF r.err # "" THEN Raise(w, r.err)
             ELSE IF r.surplus_at_end < 0
             THEN LET w1 == [w EXCEPT !.symbionts[self].time_of_digestion = r.t_d]
                  IN  IF r.t_ee = None THEN w1
                      ELSE IF r.t_d # INFINITY THEN Raise(w1, "AssertionError")
                      ELSE [w1 EXCEPT !.symbionts[self].time_of_escape = r.t_ee]
             ELSE IF next_event_type = "END_G0"
             THEN [w EXCEPT !.symbionts[self].time_of_next_end_g0 = next_event_time]
             ELSE [w EXCEPT !.symbionts[self].time_of_next_end_g1sg2m = next_event_time]

(* Symbiont._computeProductionRate(is_copy) for a symbiont in the given row,
   rho the clade's rate or, for a copy, the parent's; no fuzz, no mutation *)
computeProductionRate(rho, row) ==
    rho - ((PhotosyntheticReduction - 1) * row * rho)
              \div (PhotosyntheticReduction * (NumRows - 1))

(* EventList.cancelEvent on the calendar of the world, as
   Simulation.cancelFromEventList calls it *)
cancelFromEventList(w, time, type, symbiont_id) ==
    IF w.err # "" THEN w
    ELSE LET key == <<time, type, symbiont_id>>
         IN  IF key \in DOMAIN w.event_finder
             THEN [w EXCEPT !.events[w.event_finder[key]].type = "CANCELLED",
                            !.event_finder = DictPop(@, key)]
             ELSE Raise(w, "KeyError")

(* the loop of _scheduleInitialEvents that cancels the digestion and escape
   events of the occupants, from the i-th on *)
RECURSIVE cancelLoop(_, _, _)
cancelLoop(w, ids, i) ==
    IF w.err # "" \/ i > Len(ids) THEN w
    ELSE LET s == w.symbionts[ids[i]]
         IN  IF s.next_event_type \in {"DIGESTION", "ESCAPE"}
             THEN cancelLoop(
                      cancelFromEventList(
                          cancelEventWithinSymbiont(w, ids[i], s.next_event_type),
                          s.next_event_time, s.next_event_type, ids[i]),
                      ids, i + 1)
             ELSE cancelLoop(w, ids, i + 1)

(* self._setNextEvent() for the symbiont id *)
setNextEventOf(w, id) ==
    IF w.err # "" THEN w
    ELSE [w EXCEPT !.symbionts[id] = setNextEvent(@)]

(* the end of _scheduleInitialEvents: the state of the arriving symbiont is
   asserted and the surplus of the occupants and of the arriving symbiont is
   projected to the cell's next event time *)
scheduleProjection(w, self, d) ==
    IF w.err # "" THEN w
    ELSE IF getState(w.symbionts[self]) # "IN_G0" THEN Raise(w, "AssertionError")
    ELSE projectSurplusForAll(w, self,
                              w.cells[w.symbionts[self].cell].next_event_time,
                              TRUE, FALSE, self, d.esc)

(* the middle of _scheduleInitialEvents, after the loop that cancels: the
   sanity assertions on the occupants, the arriving symbiont's own times and
   the cell's next event time *)
scheduleOwnEvents(w, self, now, d) ==
    IF w.err # "" THEN w
    ELSE LET cell == w.symbionts[self].cell
             cell_symbionts == w.cells[cell].symbionts
             sane == \A i \in 1..Len(cell_symbionts) :
                        /\ w.symbionts[cell_symbionts[i]].time_of_escape = INFINITY
                        /\ w.symbionts[cell_symbionts[i]].time_of_digestion = INFINITY
         IN  IF ~sane THEN Raise(w, "AssertionError")
             ELSE scheduleProjection(
                      updateNextEventTime(
                          [w EXCEPT !.symbionts[self] =
                              setNextEvent([@ EXCEPT
                                  !.time_of_denouement = now + d.residence,
                                  !.time_of_next_end_g0 = now + d.g0])],
                          cell, self),
                      self, d)

(* Symbiont._scheduleInitialEvents(now); d holds the draws: the G0
   length g0, the residence time and the escape draw esc *)
scheduleInitialEvents(w, self, now, d) ==
    IF w.err # "" THEN w
    ELSE scheduleOwnEvents(
             cancelLoop(projectSurplusForAll(w, self, now, FALSE, TRUE, None, d.esc),
                        w.cells[w.symbionts[self].cell].symbionts, 1),
             self, now, d)

(* the fields of a Symbiont that __init__ sets before it schedules *)
NewSymbiont(clade_number, cell, now, surplus) ==
    [clade_number |-> clade_number, cell |-> cell, how_arrived |-> "ARRIVED_FROM_POOL",
     production_rate |-> computeProductionRate(PPR, Row(cell)),
     photosynthate_surplus |-> surplus,
     prev_event_time |-> now, prev_event_type |-> "ARRIVAL",
     prev_update_time |-> now,
     time_of_escape |-> INFINITY, time_of_digestion |-> INFINITY,
     time_of_denouement |-> INFINITY, time_of_next_end_g0 |-> INFINITY,
     time_of_next_end_g1sg2m |-> INFINITY,
     next_event_time |-> INFINITY, next_event_type |-> "None"]

(* RNG.fuzz(m, f, stream) as _computeProductionRate calls it for a symbiont
   that is no copy: the draw is the percentage of m that comes out *)
fuzz(m, pct) == (m * pct) \div 100

(* Symbiont.__init__(clade_number, cell, now); d.surplus is the
   draw of the initial surplus and d.photoprod the draw of the fuzzed
   production rate.  The new symbiont's id is w.count. *)
SymbiontInit(w, clade_number, cell, now, d) ==
    IF w.err # "" THEN w
    ELSE IF clade_number < 0 \/ clade_number >= NumClades THEN Raise(w, "ValueError")
    ELSE setNextEventOf(
             scheduleInitialEvents(
                 [w EXCEPT !.count = w.count + 1,
                           !.symbionts =
                               (w.count :> [NewSymbiont(clade_number, cell, now, d.surplus)
                                               EXCEPT !.production_rate = fuzz(@, d.photoprod)])
                                   @@ @],
                 w.count, now, d),
             w.count)

(* A fuzz amount of twice the value *)
divfuzzTwice(value, mut) == 2 * value

(* RNG.divfuzz(value, clade, stream) for the draw mut: the fuzz amount *)
divfuzz(value, mut) ==
    CASE mut = "NO_MUTATION" -> 0
      [] mut = "DELETERIOUS" -> (value * DeleteriousPct) \div 100
      [] mut = "BENEFICIAL"  -> (value * BeneficialPct) \div 100

(* Symbiont._SymbiontCopy(cell, now); d.mut is the draw of the
   mutation of the inherited bank.  The child's id is w.count; the world
   returned records it, the parent's bank before the copy and the draw. *)
SymbiontCopy(w, self, cell, now, d) ==
    IF w.err # "" THEN w
    ELSE
    LET parent == w.symbionts[self]
        id == w.count
        half == parent.photosynthate_surplus \div 2
        fuzzamt == divfuzz(half, d.mut)
        fuzzedhalf == CASE d.mut = "DELETERIOUS" -> half - fuzzamt
                        [] d.mut = "BENEFICIAL"  -> half + fuzzamt
                        [] OTHER -> half
        new_symbiont ==
            [parent EXCEPT !.how_arrived = "ARRIVED_VIA_DIVISION",
                           !.cell = cell,
                           !.prev_event_time = now,
                           !.prev_event_type = "ARRIVAL",
                           !.photosynthate_surplus = fuzzedhalf]
        w1 == [w EXCEPT !.count = id + 1,
                        !.symbionts = (id :> new_symbiont) @@
                            [@ EXCEPT ![self].photosynthate_surplus = @ - fuzzedhalf],
                        !.child = id,
                        !.bank = parent.photosynthate_surplus,
                        !.mutation = d.mut]
    IN  IF cell = None THEN w1
        ELSE setNextEventOf(
                 scheduleInitialEvents(
                     [w1 EXCEPT !.symbionts[id].production_rate =
                          computeProductionRate(@, Row(cell))],
                     id, now, d),
                 id)

-----------------------------------------------------------------------------
(* sponge.py: Sponge *)

CELL_OUTSIDE_ENVIRONMENT == None - 1

(* the cell at (level, row, col) of a sponge of num_rows rows and num_cols
   columns *)
cellAt(num_rows, num_cols, level, row, col) ==
    level * num_rows * num_cols + row * num_cols + col + 1

(* Sponge.getCell(level, row, col) *)
getCell(level, row, col) == cellAt(NumRows, NumCols, level, row, col)

GridType == {"SQUARE", "HEX"}

(* the positions of _getNeighborCells_square, relative to the cell: 8 in the
   cell's level, 9 in the level above and 9 in the level below *)
squarePositions(num_levels, level) ==
    LET positions == {p \in {0} \X (-1..1) \X (-1..1) : p # <<0, 0, 0>>}
        positions_above == {1} \X (-1..1) \X (-1..1)
        positions_below == {-1} \X (-1..1) \X (-1..1)
    IN  IF num_levels = 1 THEN positions
        ELSE IF level = 0 /\ num_levels > 1 THEN positions \cup positions_above
        ELSE IF level = num_levels - 1 THEN positions \cup positions_below
        ELSE positions \cup positions_above \cup positions_below

(* Sponge._getNeighborCells_square(cell) for the cell at (level, row, col) of
   a sponge of the given dimensions *)
neighborCells_square(num_levels, num_rows, num_cols, level, row, col) ==
    {cellAt(num_rows, num_cols, level + p[1], row + p[2], col + p[3]) :
        p \in {q \in squarePositions(num_levels, level) :
                  ~(\/ row + q[2] < 0 \/ row + q[2] >= num_rows
                    \/ col + q[3] < 0 \/ col + q[3] >= num_cols
                    \/ level + q[1] < 0 \/ level + q[1] >= num_levels)}}

(* the offsets of _getNeighborCells_hex within a level, by the parity of the
   row *)
hexOffsets(row) ==
    IF row % 2 = 0
    THEN {<<-1, -1>>, <<-1, 0>>, <<0, -1>>, <<0, 1>>, <<1, -1>>, <<1, 0>>}
    ELSE {<<-1, 0>>, <<-1, 1>>, <<0, -1>>, <<0, 1>>, <<1, 0>>, <<1, 1>>}

(* Sponge._getNeighborCells_hex(cell) for the cell at (level, row, col) of a
   sponge of the given dimensions *)
neighborCells_hex(num_levels, num_rows, num_cols, level, row, col) ==
    LET around(l) ==
            {cellAt(num_rows, num_cols, l, row + o[1], col + o[2]) :
                o \in {x \in hexOffsets(row) :
                          ~(\/ row + x[1] < 0 \/ row + x[1] >= num_rows
                            \/ col + x[2] < 0 \/ col + x[2] >= num_cols)}}
        above == IF num_levels > 1 /\ level >= 0 /\ level < num_levels - 1
                 THEN around(level + 1)
                          \cup {cellAt(num_rows, num_cols, level + 1, row, col)}
                 ELSE {}
        below == IF num_levels > 1 /\ level > 0 /\ level < num_levels
                 THEN around(level - 1)
                          \cup {cellAt(num_rows, num_cols, level - 1, row, col)}
                 ELSE {}
    IN  around(level) \cup above \cup below

(* The lists that the two methods build, in the order of the code, as the
   (level, row, col) triples that they hand to getCell *)

(* the list positions of _getNeighborCells_square after the branch on the
   level *)
squarePositionList(num_levels, level) ==
    LET positions == << <<0, -1, -1>>, <<0, -1, 0>>, <<0, -1, 1>>,
                        <<0, 0, -1>>,                <<0, 0, 1>>,
                        <<0, 1, -1>>,  <<0, 1, 0>>,  <<0, 1, 1>> >>
        positions_above == << <<1, -1, -1>>, <<1, -1, 0>>, <<1, -1, 1>>,
                              <<1, 0, -1>>,  <<1, 0, 0>>,  <<1, 0, 1>>,
                              <<1, 1, -1>>,  <<1, 1, 0>>,  <<1, 1, 1>> >>
        positions_below == << <<-1, -1, -1>>, <<-1, -1, 0>>, <<-1, -1, 1>>,
                              <<-1, 0, -1>>,  <<-1, 0, 0>>,  <<-1, 0, 1>>,
                              <<-1, 1, -1>>,  <<-1, 1, 0>>,  <<-1, 1, 1>> >>
    IN  IF num_levels = 1 THEN positions
        ELSE IF level = 0 /\ num_levels > 1 THEN positions \o positions_above
        ELSE IF level = num_levels - 1 THEN positions \o positions_below
        ELSE positions \o positions_above \o positions_below

(* the loop of _getNeighborCells_square with no test of the column *)
neighborList_squareAnyColumn(num_levels, num_rows, num_cols, level, row, col) ==
    LET inside(p) == ~(\/ row + p[2] < 0 \/ row + p[2] >= num_rows
                       \/ level + p[1] < 0 \/ level + p[1] >= num_levels)
        kept == SelectSeq(squarePositionList(num_levels, level), inside)
    IN  [i \in 1..Len(kept) |-> <<level + kept[i][1], row + kept[i][2], col + kept[i][3]>>]

(* the loop of _getNeighborCells_square: the positions that fall inside the
   sponge, in order *)
neighborList_square(num_levels, num_rows, num_cols, level, row, col) ==
    LET inside(p) == ~(\/ row + p[2] < 0 \/ row + p[2] >= num_rows
                       \/ col + p[3] < 0 \/ col + p[3] >= num_cols
                       \/ level + p[1] < 0 \/ level + p[1] >= num_levels)
        kept == SelectSeq(squarePositionList(num_levels, level), inside)
    IN  [i \in 1..Len(kept) |-> <<level + kept[i][1], row + kept[i][2], col + kept[i][3]>>]

(* even_row_off and odd_row_off of _getNeighborCells_hex *)
hexOffsetList(row) ==
    IF row % 2 = 0
    THEN << <<-1, -1>>, <<-1, 0>>, <<0, -1>>, <<0, 1>>, <<1, -1>>, <<1, 0>> >>
    ELSE << <<-1, 0>>, <<-1, 1>>, <<0, -1>>, <<0, 1>>, <<1, 0>>, <<1, 1>> >>

(* one loop of _getNeighborCells_hex over row_offset, into level l *)
hexAround(num_rows, num_cols, l, row, col) ==
    LET inside(o) == ~(\/ row + o[1] < 0 \/ row + o[1] >= num_rows
                       \/ col + o[2] < 0 \/ col + o[2] >= num_cols)
        kept == SelectSeq(hexOffsetList(row), inside)
    IN  [i \in 1..Len(kept) |-> <<l, row + kept[i][1], col + kept[i][2]>>]

(* _getNeighborCells_hex: the level of the cell, then the level above and the
   cell directly above, then the level below and the cell directly below *)
neighborList_hex(num_levels, num_rows, num_cols, level, row, col) ==
    hexAround(num_rows, num_cols, level, row, col)
      \o (IF num_levels > 1 /\ level >= 0 /\ level < num_levels - 1
          THEN hexAround(num_rows, num_cols, level + 1, row, col)
                   \o << <<level + 1, row, col>> >>
          ELSE << >>)
      \o (IF num_levels > 1 /\ level > 0 /\ level < num_levels
          THEN hexAround(num_rows, num_cols, level - 1, row, col)
                   \o << <<level - 1, row, col>> >>
          ELSE << >>)

(* Sponge._getNeighborCells_square(cell) in the sponge of the run *)
getNeighborCells_square(cell) ==
    neighborCells_square(NumLevels, NumRows, NumCols, Level(cell), Row(cell), Col(cell))

(* A search that goes to the neighbours without a look at the cell itself *)
openAdjacentCellSkipsOwn(cell, has_room, grid, num_levels, neighbor_cells, open, raises, d) ==
    IF raises THEN [cell |-> None, err |-> "AssertionError"]
    ELSE IF open = {} THEN [cell |-> None, err |-> ""]
    ELSE [cell |-> IF d.pick \in open THEN d.pick ELSE CHOOSE n \in open : TRUE,
          err |-> ""]

(* A search that takes a neighbour whether it has room or not *)
openAdjacentCellAnyNeighbour(cell, has_room, grid, num_levels, neighbor_cells, open, raises, d) ==
    IF has_room THEN [cell |-> cell, err |-> ""]
    ELSE IF raises THEN [cell |-> None, err |-> "AssertionError"]
    ELSE IF neighbor_cells = {} THEN [cell |-> None, err |-> ""]
    ELSE [cell |-> CHOOSE n \in neighbor_cells : TRUE, err |-> ""]

(* A search that maps an open neighbour outside the grid on the coin alone *)
openAdjacentCellAnywhere(cell, has_room, grid, num_levels, neighbor_cells, open, raises, d) ==
    IF has_room THEN [cell |-> cell, err |-> ""]
    ELSE IF raises THEN [cell |-> None, err |-> "AssertionError"]
    ELSE IF d.outside THEN [cell |-> CELL_OUTSIDE_ENVIRONMENT, err |-> ""]
    ELSE IF open = {} THEN [cell |-> None, err |-> ""]
    ELSE [cell |-> IF d.pick \in open THEN d.pick ELSE CHOOSE n \in open : TRUE,
          err |-> ""]

(* Sponge.checkForOpenAdjacentCell(cell, which_clade) as a function of what
   it reads: has_room, whether the cell has fewer occupants than it can hold;
   the grid type and the number of levels; the neighbours of the cell; open,
   the neighbours that are empty or have room for the clade; raises, whether
   isRoomFor fails its assertion on a neighbour that comes out of the shuffle
   before an open one.  The draws: d.pick stands for the shuffle, the open
   neighbour that comes out first, and d.outside for the coin that maps it
   outside the grid. *)
openAdjacentCell(cell, has_room, grid, num_levels, neighbor_cells, open, raises, d) ==
    LET max_neighbors  == IF grid = "SQUARE"
                          THEN IF num_levels = 1 THEN 8 ELSE 26
                          ELSE IF num_levels = 1 THEN 6 ELSE 20
        open_cell == IF open = {} THEN None
                     ELSE IF d.pick \in open THEN d.pick
                     ELSE CHOOSE n \in open : TRUE
        cell_at_boundary == Cardinality(neighbor_cells) < max_neighbors
    IN  IF has_room THEN [cell |-> cell, err |-> ""]
        ELSE IF raises THEN [cell |-> None, err |-> "AssertionError"]
        ELSE IF open_cell # None /\ cell_at_boundary /\ d.outside
        THEN [cell |-> CELL_OUTSIDE_ENVIRONMENT, err |-> ""]
        ELSE [cell |-> open_cell, err |-> ""]

(* Sponge.checkForOpenAdjacentCell(cell, which_clade) in the sponge of the
   run, a square grid *)
checkForOpenAdjacentCell(w, cell, which_clade, d) ==
    openAdjacentCell(cell, Len(w.cells[cell].symbionts) < MaxPerCell,
                     "SQUARE", NumLevels, getNeighborCells_square(cell),
                     {n \in getNeighborCells_square(cell) : isRoomFor(w, n, which_clade)},
                     \E n \in getNeighborCells_square(cell) : isRoomForRaises(w, n),
                     d)

(* a Clade object where a clade number is expected: it equals no number *)
CladeObject(clade) == NumClades + clade

(* Symbiont.findOpenCell(which_clade): the cells a uniform draw chooses from *)
findOpenCell(w, which_clade) == {c \in Cells : isRoomFor(w, c, which_clade)}

(* the symbiont a call made is recorded in the world it returns *)
withChild(w, id) ==
    IF w.err # "" THEN w
    ELSE [w EXCEPT !.child = id]

(* Symbiont.generateArrival(current_time, num_symbionts, CELL_REMOVE_ME).
   The draws: d.clade, d.aff the affinity coin, d.pick the open cell.  The
   world returned has the new symbiont's id in child, None when there is none. *)
generateArrival(w, now, num, CELL_REMOVE_ME, d) ==
    LET open_cells == findOpenCell(w, CladeObject(d.clade))
        found == IF open_cells = {} THEN None
                 ELSE IF d.pick \in open_cells THEN d.pick
                 ELSE CHOOSE c \in open_cells : TRUE
        open_cell == IF CELL_REMOVE_ME # None THEN CELL_REMOVE_ME ELSE found
    IN  IF num = NumLevels * NumRows * NumCols * MaxPerCell THEN w
        ELSE IF ~d.aff THEN w
        ELSE IF \E c \in Cells : isRoomForRaises(w, c) THEN Raise(w, "AssertionError")
        ELSE IF open_cell = None THEN w
        ELSE withChild(addSymbiont(SymbiontInit(w, d.clade, open_cell, now, d),
                                   open_cell, w.count),
                       w.count)

-----------------------------------------------------------------------------
(* symbiont.py: the handlers of the life-cycle events *)

(* the handler's event becomes the symbiont's previous event *)
setPrevEvent(w, self, now, type) ==
    IF w.err # "" THEN w
    ELSE [w EXCEPT !.symbionts[self].prev_event_time = now,
                   !.symbionts[self].prev_event_type = type]

(* the last lines of endOfG0 and of endOfG1SG2M: the symbiont's next event
   and its cell's next event time *)
setNextEventAndCell(w, self) ==
    IF w.err # "" THEN w
    ELSE updateNextEventTime([w EXCEPT !.symbionts[self] = setNextEvent(@)],
                             w.symbionts[self].cell, None)

(* An end of G0 that does not look at the previous event of the symbiont *)
endOfG0AnyPhase(w, self, now, d) ==
    setNextEventAndCell(
        projectToSymbiontNextEvent(
            setPrevEvent(
                projectSurplusForAll(
                    [w EXCEPT !.symbionts[self].time_of_next_end_g0 = INFINITY],
                    self, now, FALSE, TRUE, None, d.esc),
                self, now, "END_G0"),
            self, now, now + G1SG2MLength, "END_G1SG2M", d.esc),
        self)

(* Symbiont.endOfG0(current_time) *)
endOfG0(w, self, now, d) ==
    LET w0 == [w EXCEPT !.symbionts[self].time_of_next_end_g0 = INFINITY]
    IN  IF w.symbionts[self].prev_event_type \notin {"ARRIVAL", "END_G1SG2M"}
        THEN Raise(w0, "AssertionError")
        ELSE setNextEventAndCell(
                 projectToSymbiontNextEvent(
                     setPrevEvent(
                         projectSurplusForAll(w0, self, now, FALSE, TRUE, None, d.esc),
                         self, now, "END_G0"),
                     self, now, now + G1SG2MLength, "END_G1SG2M", d.esc),
                 self)

(* self._cell = cell, and the status the handler returns *)
setCell(w, self, cell) ==
    IF w.err # "" THEN w
    ELSE [w EXCEPT !.symbionts[self].cell = cell]

withStatus(w, status) ==
    IF w.err # "" THEN w
    ELSE [w EXCEPT !.status = status]

(* the branches of endOfG1SG2M in which the child takes the parent's place
   in the cell: the copy, the parent's removal, the child's insertion *)
childReplacesParent(w, self, cell, now, d) ==
    addSymbiont(removeSymbiont(SymbiontCopy(w, self, cell, now, d), cell, self),
                cell, w.count)

(* A division that sends the child to the pool whatever the search found *)
divideChildLeaves(w, self, cell, open_cell, now, d) ==
    withStatus(SymbiontCopy(w, self, None, now, d), "CHILD_EVICTED")

(* the part of endOfG1SG2M after the search for an open cell: one branch per
   result of the search and of the coins d.evict and d.aff *)
divide(w, self, cell, open_cell, now, d) ==
    IF open_cell = cell
    THEN withStatus(addSymbiont(SymbiontCopy(w, self, cell, now, d), cell, w.count),
                    "BOTH_STAY")
    ELSE IF open_cell = CELL_OUTSIDE_ENVIRONMENT
    THEN IF d.evict
         THEN withStatus(setCell(childReplacesParent(w, self, cell, now, d), self, None),
                         "PARENT_INFECTS_OUTSIDE")
         ELSE withStatus(SymbiontCopy(w, self, None, now, d), "CHILD_INFECTS_OUTSIDE")
    ELSE IF open_cell # None
    THEN IF d.evict
         THEN IF d.aff
              THEN withStatus(
                       addSymbiont(
                           setCell(childReplacesParent(w, self, cell, now, d),
                                   self, open_cell),
                           open_cell, self),
                       "BOTH_STAY")
              ELSE withStatus(
                       setCell(childReplacesParent(w, self, cell, now, d), self, None),
                       "PARENT_NO_AFFINITY")
         ELSE IF d.aff
         THEN withStatus(
                  addSymbiont(SymbiontCopy(w, self, open_cell, now, d), open_cell, w.count),
                  "BOTH_STAY")
         ELSE withStatus(SymbiontCopy(w, self, None, now, d), "CHILD_NO_AFFINITY")
    ELSE IF d.evict
         THEN withStatus(setCell(childReplacesParent(w, self, cell, now, d), self, None),
                         "PARENT_EVICTED")
         ELSE withStatus(SymbiontCopy(w, self, None, now, d), "CHILD_EVICTED")

(* a handler that raises returns no status *)
noStatus(w) ==
    IF w.err # "" THEN [w EXCEPT !.status = "None"] ELSE w

(* the end of endOfG1SG2M, after the branches: the parent's previous event,
   then the projection to its next end of G0, whose time no branch with the
   parent leaving has assigned.  d.g0p is the draw of the parent's next G0
   length. *)
divisionEnd(w, self, now, d) ==
    IF w.err # "" THEN w
    ELSE IF w.status \in {"PARENT_EVICTED", "PARENT_INFECTS_OUTSIDE",
                          "PARENT_NO_AFFINITY"}
    THEN noStatus(Raise(setPrevEvent(w, self, now, "END_G1SG2M"), "UnboundLocalError"))
    ELSE noStatus(
             setNextEventAndCell(
                 projectToSymbiontNextEvent(
                     setPrevEvent(w, self, now, "END_G1SG2M"),
                     self, now, now + d.g0p, "END_G0", d.esc),
                 self))

(* the middle of endOfG1SG2M: the branches, for the result of the search *)
divisionInto(w, self, cell, found, now, d) ==
    IF found.err # "" THEN Raise(w, found.err)
    ELSE divisionEnd(
             divide([w EXCEPT !.branch = CASE found.cell = cell -> "SAME_CELL"
                                           [] found.cell = CELL_OUTSIDE_ENVIRONMENT -> "OUTSIDE"
                                           [] found.cell = None -> "NO_OPEN_CELL"
                                           [] OTHER -> "NEIGHBOUR",
                              !.coin = IF found.cell = cell THEN "None"
                                       ELSE IF d.evict THEN "PARENT" ELSE "CHILD"],
                    self, cell, found.cell, now, d),
             self, now, d)

(* the search of endOfG1SG2M for an open cell, after the projection *)
divisionSearch(w, self, now, d) ==
    IF w.err # "" THEN w
    ELSE divisionInto(w, self, w.symbionts[self].cell,
                      checkForOpenAdjacentCell(w, w.symbionts[self].cell,
                                               w.symbionts[self].clade_number, d),
                      now, d)

(* Symbiont.endOfG1SG2M(current_time).  The world returned has the status
   and the child of the result. *)
endOfG1SG2M(w, self, now, d) ==
    LET w0 == [w EXCEPT !.symbionts[self].time_of_next_end_g1sg2m = INFINITY]
    IN  IF w.symbionts[self].prev_event_type # "END_G0" THEN Raise(w0, "AssertionError")
        ELSE divisionSearch(
                 projectSurplusForAll(w0, self, now, FALSE, TRUE, None, d.esc),
                 self, now, d)

(* the loop of _symbiontExitFromCell over the occupants left, from the i-th *)
RECURSIVE exitLoop(_, _, _, _, _, _)
exitLoop(w, self, ids, i, now, esc) ==
    IF w.err # "" \/ i > Len(ids) THEN w
    ELSE LET s == w.symbionts[ids[i]]
             r == computeSurplusAtEventEnd(w.symbionts[self], now, s.next_event_time,
                                           Len(ids), esc)
         IN  IF r.err # "" THEN Raise(w, r.err)
             ELSE IF ~(r.surplus_at_end < 0) THEN exitLoop(w, self, ids, i + 1, now, esc)
             ELSE IF s.next_event_type \in {"END_G0", "END_G1SG2M"}
             THEN cancelEventWithinSymbiont(w, ids[i], s.next_event_type)
             ELSE IF s.next_event_type \in {"DIGESTION", "ESCAPE"}
             THEN IF r.t_ee # None /\ r.t_d # INFINITY THEN Raise(w, "AssertionError")
                  ELSE Raise([w EXCEPT !.symbionts[ids[i]] =
                                 IF s.next_event_type = "DIGESTION"
                                 THEN [@ EXCEPT !.next_event_time = r.t_d,
                                                !.time_of_digestion = r.t_d]
                                 ELSE [@ EXCEPT !.next_event_time = r.t_d,
                                                !.time_of_escape = r.t_d]],
                             "TypeError")
             ELSE exitLoop(w, self, ids, i + 1, now, esc)

(* Symbiont._symbiontExitFromCell(current_time) *)
symbiontExitFromCell(w, self, now, d) ==
    IF w.err # "" THEN w
    ELSE exitLoop(w, self, w.cells[w.symbionts[self].cell].symbionts, 1, now, d.esc)

(* An exit that leaves the symbiont in the list of its cell *)
leaveCellStays(w, self, surplus, now, d) ==
    IF w.err # "" THEN w
    ELSE symbiontExitFromCell(
             [w EXCEPT !.symbionts[self].photosynthate_surplus = surplus], self, now, d)

(* the end of digestion, escape and denouement: the bank is set, the
   symbiont leaves its cell and the occupants left are looked at *)
leaveCell(w, self, surplus, now, d) ==
    IF w.err # "" THEN w
    ELSE symbiontExitFromCell(
             removeSymbiont([w EXCEPT !.symbionts[self].photosynthate_surplus = surplus],
                            w.symbionts[self].cell, self),
             self, now, d)

(* Symbiont.digestion(current_time) and Symbiont.escape(current_time), which
   have the same body *)
digestion(w, self, now, d) ==
    leaveCell(projectSurplusForAll(w, self, now, FALSE, TRUE, None, d.esc),
              self, 0, now, d)

escape(w, self, now, d) == digestion(w, self, now, d)

(* the part of denouement after the projection of the occupants *)
denouementExit(w, self, now, d) ==
    IF w.err # "" THEN w
    ELSE LET s == w.symbionts[self]
             r == computeSurplusAtEventEnd(s, s.prev_event_time, now,
                                           Len(w.cells[s.cell].symbionts), d.esc)
         IN  IF r.err # "" THEN Raise(w, r.err)
             ELSE IF r.t_d # None \/ r.t_ee # None \/ r.surplus_at_end < 0
             THEN Raise(w, "AssertionError")
             ELSE leaveCell(w, self, r.surplus_at_end, now, d)

(* Symbiont.denouement(current_time) *)
denouement(w, self, now, d) ==
    denouementExit(projectSurplusForAll(w, self, now, FALSE, TRUE, None, d.esc),
                   self, now, d)

-----------------------------------------------------------------------------
(* simulation.py: the driver of the life cycle *)

(* Event(time, type, symbiont) and EventList.insertEvent on the calendar of
   the world *)
insertEventW(w, time, type, symbiont) ==
    IF w.err # "" THEN w
    ELSE LET n == w.event_cnt
             E == (n :> [time |-> time, type |-> type, symbiont |-> symbiont]) @@ w.events
         IN  [w EXCEPT !.events = E,
                       !.event_cnt = n + 1,
                       !.heap = HeapPush(E, w.heap, n),
                       !.event_finder = IF symbiont = None THEN @
                                        ELSE (<<time, type, symbiont>> :> n) @@ @,
                       !.err = IF symbiont = None THEN "AttributeError" ELSE @]

(* symbiont.getNextSymbiontEvent(), Event(...) and insertEvent, the lines the
   driver runs after a handler for each symbiont that goes on *)
insertNextEventOf(w, id) ==
    IF w.err # "" THEN w
    ELSE insertEventW(w, w.symbionts[id].next_event_time,
                      w.symbionts[id].next_event_type, id)

(* the draws of one dispatch, all of them at their first value *)
NoDraw == [clade |-> 0, aff |-> FALSE, pick |-> None, surplus |-> 0, g0 |-> 0,
           residence |-> 0, esc |-> "no", evict |-> FALSE, outside |-> FALSE,
           mut |-> "NO_MUTATION", g0p |-> 0, photoprod |-> 100]

EscapeDraws == {"no", "late"}
MutationType == {"NO_MUTATION", "DELETERIOUS", "BENEFICIAL"}

(* the draws of RNG that an arrival consumes: none after a lost affinity coin *)
ArrivalDraws ==
    {NoDraw} \cup
    {[NoDraw EXCEPT !.clade = c, !.aff = TRUE, !.pick = p, !.surplus = s, !.g0 = g,
                    !.residence = r, !.esc = e] :
        c \in 0..(NumClades - 1), p \in {None} \cup Cells, s \in InitialSurplus,
        g \in G0Lengths, r \in ResidenceTimes, e \in EscapeDraws}

(* the draws of RNG that the handler of an event of the type consumes; a
   division in a cell that has room draws neither a neighbour nor a coin *)
HandlerDraws(type, has_room, neighbor_cells) ==
    IF type = "END_G1SG2M"
    THEN {[NoDraw EXCEPT !.evict = v, !.aff = a, !.outside = o, !.pick = p, !.mut = m,
                         !.g0 = g, !.residence = r, !.g0p = q, !.esc = e] :
             v \in IF has_room THEN {FALSE} ELSE BOOLEAN,
             a \in IF has_room THEN {FALSE} ELSE BOOLEAN,
             o \in IF has_room THEN {FALSE} ELSE BOOLEAN,
             p \in IF has_room \/ neighbor_cells = {} THEN {None} ELSE neighbor_cells,
             m \in MutationType,
             g \in G0Lengths, r \in ResidenceTimes, q \in G0Lengths, e \in EscapeDraws}
    ELSE {[NoDraw EXCEPT !.esc = e] : e \in EscapeDraws}

(* the objects of the world become the state *)
Commit(w) ==
    /\ symbionts' = w.symbionts
    /\ cells' = w.cells
    /\ count' = w.count
    /\ heap' = w.heap
    /\ events' = w.events
    /\ event_finder' = w.event_finder
    /\ event_cnt' = w.event_cnt
    /\ err' = w.err

(* what the handler of the event did, for last *)
Handled(op, event, time, type, symbiont, cell, w) ==
    [Call(op, event, time, type, symbiont, None) EXCEPT
        !.cell = cell,
        !.status = w.status, !.child = w.child, !.bank = w.bank,
        !.mutation = w.mutation, !.branch = w.branch, !.coin = w.coin]

(* the ARRIVAL branch after generateArrival returned the world w1 and the
   arrival's next event was inserted, which gives the world w2 *)
arrived(w1, w2) ==
    /\ Commit(w2)
    /\ num_symbionts' = IF w2.err = "" /\ w1.child # None
                        THEN num_symbionts + 1 ELSE num_symbionts
    /\ last' = Handled("arrival", None, current_time, "ARRIVAL", w1.child,
                       IF w1.child = None THEN None ELSE w1.symbionts[w1.child].cell,
                       w2)
    /\ UNCHANGED current_time

(* the next event of the symbiont that arrived, when there is one, goes on
   the calendar *)
insertArrived(w) ==
    arrived(w, IF w.child # None THEN insertNextEventOf(w, w.child) ELSE w)

(* the ARRIVAL branch of the main loop: generateArrival at the current time
   and, when a symbiont comes of it, the insertion of its next event *)
arrival(CELL_REMOVE_ME, d) ==
    insertArrived(generateArrival(World, current_time, num_symbionts, CELL_REMOVE_ME, d))

(* the inserts the main loop makes after endOfG1SG2M, by status *)
afterDivision(w, self) ==
    IF w.err # "" THEN w
    ELSE IF w.status \in {"CHILD_INFECTS_OUTSIDE", "CHILD_EVICTED", "CHILD_NO_AFFINITY"}
    THEN insertNextEventOf(w, self)
    ELSE IF w.status = "BOTH_STAY"
    THEN insertNextEventOf(insertNextEventOf(w, self), w.child)
    ELSE insertNextEventOf(w, w.child)

(* the handler of the main loop for an event of the type and what the loop
   does after it *)
handle(w, type, self, now, d) ==
    CASE type = "END_G0"     -> insertNextEventOf(endOfG0(w, self, now, d), self)
      [] type = "END_G1SG2M" -> afterDivision(endOfG1SG2M(w, self, now, d), self)
      [] type = "DIGESTION"  -> digestion(w, self, now, d)
      [] type = "ESCAPE"     -> escape(w, self, now, d)
      [] type = "DENOUEMENT" -> denouement(w, self, now, d)

(* the main loop after the handler of the event ev, taken from the calendar
   as r.event, has returned the world w *)
handled(r, ev, w) ==
    /\ Commit(w)
    /\ last' = Handled(ev.type, r.event, ev.time, ev.type,
                       ev.symbiont, symbionts[ev.symbiont].cell, w)
    /\ num_symbionts' =
         IF w.err # "" THEN num_symbionts
         ELSE IF ev.type \in {"DIGESTION", "ESCAPE", "DENOUEMENT"}
         THEN num_symbionts - 1
         ELSE IF w.status = "BOTH_STAY" THEN num_symbionts + 1
         ELSE num_symbionts
    /\ current_time' = ev.time

(* what the main loop adds to _num_symbionts_per_clade[k] after the handler
   of an event: 1 for the clade of a symbiont that arrived and for the clade
   of the child on BOTH_STAY, -1 for the clade of the symbiont after
   digestion, escape and denouement; clade is getCladeNumber() of that
   symbiont, None when there is no symbiont *)
perCladeChange(type, status, clade, k) ==
    IF clade # k THEN 0
    ELSE IF type = "ARRIVAL" THEN 1
    ELSE IF type = "END_G1SG2M" /\ status = "BOTH_STAY" THEN 1
    ELSE IF type \in {"DIGESTION", "ESCAPE", "DENOUEMENT"} THEN -1
    ELSE 0

(* An iteration that does not compare the time of the event with the end
   time *)
iterationPastEnd(end_time) ==
    LET r == getNextEvent(events, heap, event_finder)
        w0 == [World EXCEPT !.heap = r.heap, !.event_finder = r.finder]
    IN  IF r.err # ""
        THEN /\ Commit(Raise(w0, r.err))
             /\ last' = [NoCall EXCEPT !.op = "pop"]
             /\ UNCHANGED <<current_time, num_symbionts>>
        ELSE IF r.event = None
        THEN /\ Commit(w0)
             /\ last' = [NoCall EXCEPT !.op = "end"]
             /\ UNCHANGED <<current_time, num_symbionts>>
        ELSE LET ev == events[r.event]
             IN  /\ ev.type = "END_G1SG2M" => count < MaxSymbionts
                 /\ \E d \in HandlerDraws(ev.type,
                                 /\ symbionts[ev.symbiont].cell # None
                                 /\ Len(cells[symbionts[ev.symbiont].cell].symbionts)
                                       < MaxPerCell,
                                 IF symbionts[ev.symbiont].cell = None THEN {}
                                 ELSE getNeighborCells_square(symbionts[ev.symbiont].cell)) :
                      handled(r, ev, handle(w0, ev.type, ev.symbiont, ev.time, d))

(* one iteration of the main loop: the next event is taken, the loop ends
   when there is none before the end time, else the clock is set and the
   event's handler runs *)
iterationTo(end_time) ==
    LET r == getNextEvent(events, heap, event_finder)
        w0 == [World EXCEPT !.heap = r.heap, !.event_finder = r.finder]
    IN  IF r.err # ""
        THEN /\ Commit(Raise(w0, r.err))
             /\ last' = [NoCall EXCEPT !.op = "pop"]
             /\ UNCHANGED <<current_time, num_symbionts>>
        ELSE IF r.event = None \/ ~(events[r.event].time < end_time)
        THEN /\ Commit(w0)
             /\ last' = [NoCall EXCEPT !.op = "end"]
             /\ UNCHANGED <<current_time, num_symbionts>>
        ELSE LET ev == events[r.event]
             IN  /\ ev.type = "END_G1SG2M" => count < MaxSymbionts
                 /\ \E d \in HandlerDraws(ev.type,
                                 /\ symbionts[ev.symbiont].cell # None
                                 /\ Len(cells[symbionts[ev.symbiont].cell].symbionts)
                                       < MaxPerCell,
                                 IF symbionts[ev.symbiont].cell = None THEN {}
                                 ELSE getNeighborCells_square(symbionts[ev.symbiont].cell)) :
                      handled(r, ev, handle(w0, ev.type, ev.symbiont, ev.time, d))

(* an iteration of the main loop of a run to Parameters.MAX_SIMULATED_TIME *)
iteration == iterationTo(EndTime)

(* Arrivals while the clock is at its initial value, into the cell the
   search finds or into the cell the caller names, and iterations of the
   main loop *)
Arrive ==
    /\ Running
    /\ last.op # "end"
    /\ current_time = 0
    /\ count < MaxArrivals
    /\ \E d \in ArrivalDraws, c \in {None} \cup Cells :
          /\ d.aff => ((c = None) # (d.pick = None))
          /\ ~d.aff => c = None
          /\ arrival(c, d)

Step ==
    /\ Running
    /\ last.op # "end"
    /\ iteration

NextLife == Arrive \/ Step

SpecLife == InitCalendar /\ [][NextLife]_vars

(***************************************************************************)
(* A longer run from one arrival: the symbiont that arrives stays long     *)
(* enough to go through more than one cell cycle.                          *)
(***************************************************************************)

CycleEndTime == 6           \* Parameters.MAX_SIMULATED_TIME of the longer run
LongResidenceTimes == {6}   \* draws of the residence time of the first arrival

(* the first arrival of the run, from the pool *)
ArriveFirst ==
    /\ Running
    /\ last.op = "none"
    /\ \E a \in ArrivalDraws, r \in LongResidenceTimes :
          /\ a.aff
          /\ a.pick # None
          /\ arrival(None, [a EXCEPT !.residence = r])

StepCycle ==
    /\ Running
    /\ last.op # "end"
    /\ iterationTo(CycleEndTime)

NextCycle == ArriveFirst \/ StepCycle

SpecCycle == InitCalendar /\ [][NextCycle]_vars

(* the states in which the main loop makes another iteration: no handler
   has raised, the loop has not ended, and the next event is not a division
   before the end time that would make one symbiont more than MaxSymbionts *)
CycleGoesOn ==
    /\ Running
    /\ last.op # "end"
    /\ ~(/\ getNextEvent(events, heap, event_finder).event # None
         /\ events[getNextEvent(events, heap, event_finder).event].time < CycleEndTime
         /\ events[getNextEvent(events, heap, event_finder).event].type = "END_G1SG2M"
         /\ count = MaxSymbionts)

(* The main loop goes on as long as it has not ended: each iteration is
   followed by the next.  This is WF_vars(StepCycle), written with the state
   predicate CycleGoesOn for ENABLED <<StepCycle>>_vars and with "a step
   that is no arrival" for <<StepCycle>>_vars. *)
FairCycle ==
    /\ SpecCycle
    /\ \/ []<>(~CycleGoesOn)
       \/ []<><<last'.op # "arrival">>_vars

(***************************************************************************)
(* Runs in which symbionts share a cell: up to MaxSharing arrivals into    *)
(* the cell the caller names, with draws of the initial surplus, of the G0 *)
(* length and of the residence time that differ from one arrival to the    *)
(* next, so that one occupant leaves the cell long before the next event   *)
(* of the other.                                                           *)
(***************************************************************************)

ShareEndTime == 4                     \* Parameters.MAX_SIMULATED_TIME of these runs
MaxSharing == 3                       \* arrivals in one of these runs

(* the draws of an arrival: the gamma variate of the initial surplus, the
   fuzzed G0 length, the fuzzed residence time and the fuzzed production
   rate, as a percentage of the rate of the row *)
ShareDraws ==
    {[surplus |-> 6 * Unit,  g0 |-> 3, residence |-> 6, photoprod |-> 100],
     [surplus |-> 18 * Unit, g0 |-> 3, residence |-> 1, photoprod |-> 100],
     [surplus |-> 6 * Unit,  g0 |-> 3, residence |-> 1, photoprod |-> 100],
     [surplus |-> 6 * Unit,  g0 |-> 1, residence |-> 2, photoprod |-> 50],
     [surplus |-> 18 * Unit, g0 |-> 4, residence |-> 6, photoprod |-> 100],
     [surplus |-> 6 * Unit,  g0 |-> 3, residence |-> 6, photoprod |-> 50]}

ArriveShared ==
    /\ Running
    /\ last.op # "end"
    /\ current_time = 0
    /\ count < MaxSharing
    /\ \E c \in Cells, x \in ShareDraws :
          arrival(c, [NoDraw EXCEPT !.aff = TRUE, !.surplus = x.surplus, !.g0 = x.g0,
                                    !.residence = x.residence,
                                    !.photoprod = x.photoprod])

StepShared ==
    /\ Running
    /\ last.op # "end"
    /\ iterationTo(ShareEndTime)

NextShared == ArriveShared \/ StepShared

SpecShared == InitCalendar /\ [][NextShared]_vars

-----------------------------------------------------------------------------
(* The cells alone: Symbiont objects that exist already are added to and
   removed from the cells by a client of Cell *)

(* Symbiont objects constructed for a cell and not yet added to it *)
InitCell ==
    /\ InitEventList
    /\ symbionts = [i \in 0..(MaxSymbionts - 1) |->
                       [NewSymbiont(i % NumClades, 1 + (i % NumRows), 0, 6 * Unit)
                            EXCEPT !.next_event_time = 1 + (i % 2)]]
    /\ cells = [c \in Cells |-> [symbionts |-> <<>>, next_event_time |-> None]]
    /\ count = MaxSymbionts
    /\ num_symbionts = 0

(* a call of a method of Cell by the client *)
cellCall(op, cell, symbiont, w) ==
    /\ Commit(w)
    /\ last' = [NoCall EXCEPT !.op = op, !.cell = cell, !.symbiont = symbiont]
    /\ UNCHANGED <<current_time, num_symbionts>>

AddOccupant ==
    /\ Running
    /\ \E c \in Cells, s \in DOMAIN symbionts :
          cellCall("addSymbiont", c, s, addSymbiont(World, c, s))

RemoveOccupant ==
    /\ Running
    /\ \E c \in Cells, s \in DOMAIN symbionts :
          cellCall("removeSymbiont", c, s, removeSymbiont(World, c, s))

NextCell == AddOccupant \/ RemoveOccupant

SpecCell == InitCell /\ [][NextCell]_vars

(***************************************************************************)
(* The search for an open cell on its own, over sponges of every shape     *)
(***************************************************************************)

MaxDim == 3       \* sponges of up to MaxDim levels, rows and columns

(* Sponge.checkForOpenAdjacentCell called once, on a cell of a square or
   hexagonal sponge, with the occupancy of the cell and of its neighbours
   drawn freely *)
searchCall(grid, num_levels, num_rows, num_cols, level, row, col, neighbor_cells) ==
    \E has_room \in BOOLEAN, raises \in BOOLEAN, outside \in BOOLEAN,
       open \in {{}, neighbor_cells} \cup {{n} : n \in neighbor_cells} :
        \E pick \in IF open = {} THEN {None} ELSE open :
            last' = [op             |-> "checkForOpenAdjacentCell",
                     grid           |-> grid,
                     num_levels     |-> num_levels,
                     cell           |-> cellAt(num_rows, num_cols, level, row, col),
                     has_room       |-> has_room,
                     neighbor_cells |-> neighbor_cells,
                     open           |-> open,
                     raises         |-> raises,
                     pick           |-> pick,
                     outside        |-> outside,
                     result         |-> openAdjacentCell(
                                            cellAt(num_rows, num_cols, level, row, col),
                                            has_room, grid, num_levels, neighbor_cells,
                                            open, raises,
                                            [pick |-> pick, outside |-> outside])]

Search ==
    /\ last.op = "none"
    /\ \E grid \in GridType, num_levels \in 1..MaxDim, num_rows \in 1..MaxDim, num_cols \in 1..MaxDim :
          \E level \in 0..(num_levels - 1), row \in 0..(num_rows - 1), col \in 0..(num_cols - 1) :
              searchCall(grid, num_levels, num_rows, num_cols, level, row, col,
                         IF grid = "SQUARE"
                         THEN neighborCells_square(num_levels, num_rows, num_cols, level, row, col)
                         ELSE neighborCells_hex(num_levels, num_rows, num_cols, level, row, col))
    /\ UNCHANGED <<heap, events, event_finder, event_cnt, current_time, err,
                   symbionts, cells, count, num_symbionts>>

NextSearch == Search

SpecSearch == InitCalendar /\ [][NextSearch]_vars

(***************************************************************************)
(* The neighbours of a cell on their own, over sponges of every shape      *)
(***************************************************************************)

MaxGrid == 5      \* sponges of up to MaxGrid levels, rows and columns

(* _getNeighborCells_square or _getNeighborCells_hex called once on the cell
   at (level, row, col) *)
neighborCall(grid, num_levels, num_rows, num_cols, level, row, col) ==
    last' = [op         |-> "getNeighborCells",
             grid       |-> grid,
             num_levels |-> num_levels,
             num_rows   |-> num_rows,
             num_cols   |-> num_cols,
             level      |-> level,
             row        |-> row,
             col        |-> col,
             neighbors  |-> IF grid = "SQUARE"
                            THEN neighborList_square(num_levels, num_rows, num_cols, level, row, col)
                            ELSE neighborList_hex(num_levels, num_rows, num_cols, level, row, col)]

Neighbors ==
    /\ last.op = "none"
    /\ \E grid \in GridType, num_levels \in 1..MaxGrid, num_rows \in 1..MaxGrid, num_cols \in 1..MaxGrid :
          \E level \in 0..(num_levels - 1), row \in 0..(num_rows - 1), col \in 0..(num_cols - 1) :
              neighborCall(grid, num_levels, num_rows, num_cols, level, row, col)
    /\ UNCHANGED <<heap, events, event_finder, event_cnt, current_time, err,
                   symbionts, cells, count, num_symbionts>>

NextNeighbors == Neighbors

SpecNeighbors == InitCalendar /\ [][NextNeighbors]_vars

(***************************************************************************)
(* The projection of the bank on its own.  Amounts of photosynthate are in *)
(* halves of a unit, times in days.                                        *)
(***************************************************************************)

MaxBank     == 10   \* banks of 0 to MaxBank halves
MaxRate     == 2    \* production rates of 0 to MaxRate halves a day
MaxInterval == 10   \* intervals of 0 to MaxInterval days

(* demands of a cell that its occupants share without a remainder *)
Demands == {0, 2, 4}

(* Symbiont._computeSurplusAtEventEnd called once, for a symbiont and a cell
   drawn freely *)
projectorCall(bank, rate, demand, mcr, prev_event_type, this_time, next_time, num, esc) ==
    last' = [op              |-> "computeSurplusAtEventEnd",
             bank            |-> bank,
             production_rate |-> rate,
             demand          |-> demand,
             mitotic_cost_rate |-> mcr,
             prev_event_type |-> prev_event_type,
             this_time       |-> this_time,
             next_time       |-> next_time,
             num             |-> num,
             esc             |-> esc,
             result          |-> surplusAtEventEnd(
                                     bank, rate, demand, mcr,
                                     getState([prev_event_type |-> prev_event_type]),
                                     this_time, next_time, num, esc)]

Project ==
    /\ last.op = "none"
    /\ \E bank \in 0..MaxBank, rate \in 0..MaxRate, demand \in Demands, mcr \in 0..1 :
          \E prev_event_type \in {"ARRIVAL", "END_G0", "END_G1SG2M"},
             this_time \in 0..MaxTime, time_diff \in 0..MaxInterval,
             num \in 1..MaxPerCell, esc \in EscapeDraws :
              projectorCall(bank, rate, demand, mcr, prev_event_type,
                            this_time, this_time + time_diff, num, esc)
    /\ UNCHANGED <<heap, events, event_finder, event_cnt, current_time, err,
                   symbionts, cells, count, num_symbionts>>

NextProjector == Project

SpecProjector == InitCalendar /\ [][NextProjector]_vars

(***************************************************************************)
(* Cell.isRoomFor on its own, as its two callers call it                   *)
(***************************************************************************)

MaxOccupants == 4   \* cells that hold 1 to MaxOccupants symbionts

(* the lists of n clade numbers *)
RECURSIVE CladeLists(_)
CladeLists(n) ==
    IF n = 0 THEN {<<>>}
    ELSE {Append(q, c) : q \in CladeLists(n - 1), c \in 0..(NumClades - 1)}

(* cell.isRoomFor(which_clade) called once for a symbiont of the clade
   numbered clade: by Sponge.checkForOpenAdjacentCell, to which endOfG1SG2M
   passes self._clade_number, or by Symbiont.findOpenCell, to which
   generateArrival passes Clade.getClade(clade) *)
roomCall(caller, clades, max_occupants, clade, which_clade) ==
    last' = [op            |-> "isRoomFor",
             caller        |-> caller,
             clades        |-> clades,
             max_occupants |-> max_occupants,
             clade         |-> clade,
             which_clade   |-> which_clade,
             result        |-> roomFor(clades, max_occupants, which_clade)]

AskRoom ==
    /\ last.op = "none"
    /\ \E max_occupants \in 1..MaxOccupants, caller \in {"endOfG1SG2M", "generateArrival"}, clade \in 0..(NumClades - 1) :
          \E n \in 0..max_occupants :
              \E clades \in CladeLists(n) :
                  roomCall(caller, clades, max_occupants, clade,
                           IF caller = "generateArrival" THEN CladeObject(clade) ELSE clade)
    /\ UNCHANGED <<heap, events, event_finder, event_cnt, current_time, err,
                   symbionts, cells, count, num_symbionts>>

NextRoom == AskRoom

SpecRoom == InitCalendar /\ [][NextRoom]_vars

-----------------------------------------------------------------------------
(* Sponge.checkForOpenAdjacentCell on a sponge with occupants: the sponge,
   the clades of the occupants of each of its cells, the cell of the search
   and the clade asked for are drawn *)

NearDim == 2                \* sponges of up to NearDim levels, rows and columns
NearCells == 4              \* and of up to NearCells cells
NearMaxOccupants == 3       \* Parameters.MAX_OCCUPANTS_PER_CELL of these sponges

(* the clades of the occupants of a cell: none, one, two of two clades, or
   as many as the cell holds *)
NearLists == {<<>>, <<0>>, <<1>>, <<0, 1>>, <<0, 0, 0>>}

(* the neighbours on which candidate_cell.isEmpty() or
   candidate_cell.isRoomFor(which_clade) is true *)
openNeighbors(neighbor_cells, clades, which_clade) ==
    {n \in neighbor_cells :
        \/ Len(clades[n]) = 0
        \/ roomFor(clades[n], NearMaxOccupants, which_clade).value}

(* the neighbours on which isRoomFor fails its assertion *)
failingNeighbors(neighbor_cells, clades, which_clade) ==
    {n \in neighbor_cells : roomFor(clades[n], NearMaxOccupants, which_clade).err # ""}

(* one call of checkForOpenAdjacentCell; the shuffle decides which open
   neighbour comes out first (pick) and whether a neighbour that fails the
   assertion comes out before it (raises) *)
nearCall(grid, num_levels, num_rows, num_cols, level, row, col, neighbor_cells, clades, which_clade) ==
    \E outside \in BOOLEAN,
       raises \in IF failingNeighbors(neighbor_cells, clades, which_clade) = {}
                  THEN {FALSE}
                  ELSE IF openNeighbors(neighbor_cells, clades, which_clade) = {}
                  THEN {TRUE} ELSE BOOLEAN,
       pick \in IF openNeighbors(neighbor_cells, clades, which_clade) = {}
                THEN {None} ELSE openNeighbors(neighbor_cells, clades, which_clade) :
        last' = [op             |-> "checkForOpenAdjacentCell",
                 grid           |-> grid,
                 num_levels     |-> num_levels,
                 num_rows       |-> num_rows,
                 num_cols       |-> num_cols,
                 level          |-> level,
                 row            |-> row,
                 col            |-> col,
                 cell           |-> cellAt(num_rows, num_cols, level, row, col),
                 clades         |-> clades,
                 which_clade    |-> which_clade,
                 has_room       |-> Len(clades[cellAt(num_rows, num_cols, level, row, col)])
                                        < NearMaxOccupants,
                 neighbor_cells |-> neighbor_cells,
                 open           |-> openNeighbors(neighbor_cells, clades, which_clade),
                 raises         |-> raises,
                 pick           |-> pick,
                 outside        |-> outside,
                 result         |-> openAdjacentCell(
                                        cellAt(num_rows, num_cols, level, row, col),
                                        Len(clades[cellAt(num_rows, num_cols, level, row, col)])
                                            < NearMaxOccupants,
                                        grid, num_levels, neighbor_cells,
                                        openNeighbors(neighbor_cells, clades, which_clade),
                                        raises,
                                        [pick |-> pick, outside |-> outside])]

SearchNear ==
    /\ last.op = "none"
    /\ \E grid \in GridType, num_levels \in 1..NearDim, num_rows \in 1..NearDim, num_cols \in 1..NearDim :
          /\ num_levels * num_rows * num_cols <= NearCells
          /\ \E level \in 0..(num_levels - 1), row \in 0..(num_rows - 1), col \in 0..(num_cols - 1),
                clades \in [1..(num_levels * num_rows * num_cols) -> NearLists],
                which_clade \in 0..(NumClades - 1) :
                nearCall(grid, num_levels, num_rows, num_cols, level, row, col,
                         IF grid = "SQUARE"
                         THEN neighborCells_square(num_levels, num_rows, num_cols, level, row, col)
                         ELSE neighborCells_hex(num_levels, num_rows, num_cols, level, row, col),
                         clades, which_clade)
    /\ UNCHANGED <<heap, events, event_finder, event_cnt, current_time, err,
                   symbionts, cells, count, num_symbionts>>

SpecNear == InitCalendar /\ [][SearchNear]_vars

-----------------------------------------------------------------------------
(* event_list.py, the self-test under __main__: END_G0 events are inserted
   for symbionts that have none pending, some of them are cancelled and
   replaced by a DIGESTION of the same symbiont at the same time, and the
   calendar is emptied with getNextEvent *)

MaxLoaded == 3                        \* END_G0 events inserted before the cancels
LoadTimes == 1..2                     \* their times

(* the symbionts with an event filed in the finder *)
pendingSymbionts == {k[3] : k \in DOMAIN event_finder}

(* event = Event(t, EventType.END_G0, s); elist.insertEvent(event) *)
Load ==
    /\ Running
    /\ last.op \in {"none", "load"}
    /\ event_cnt < MaxLoaded
    /\ \E t \in LoadTimes, s \in 0..(MaxLoaded - 1) :
          /\ s \notin pendingSymbionts
          /\ Commit(insertEventW(World, t, "END_G0", s))
          /\ last' = [op |-> "load", event |-> event_cnt, time |-> t, symbiont |-> s,
                      returned |-> <<>>]
    /\ UNCHANGED <<current_time, num_symbionts>>

(* elist.cancelEvent(t, EventType.END_G0, s);
   event = Event(t + offset, EventType.DIGESTION, symbs[s]), with offset 0.0;
   elist.insertEvent(event) *)
Replace ==
    /\ Running
    /\ last.op \in {"load", "replace"}
    /\ \E k \in DOMAIN event_finder :
          /\ k[2] = "END_G0"
          /\ Commit(insertEventW(cancelFromEventList(World, k[1], "END_G0", k[3]),
                                 k[1], "DIGESTION", k[3]))
          /\ last' = [op |-> "replace", event |-> event_cnt, time |-> k[1],
                      symbiont |-> k[3], returned |-> <<>>]
    /\ UNCHANGED <<current_time, num_symbionts>>

(* event = elist.getNextEvent() in the loop `while event is not None`;
   returned is the list of the events the loop has printed *)
Drain ==
    /\ Running
    /\ last.op \in {"replace", "drain"}
    /\ last.op = "drain" => last.event # None
    /\ heap' = getNextEvent(events, heap, event_finder).heap
    /\ event_finder' = getNextEvent(events, heap, event_finder).finder
    /\ err' = getNextEvent(events, heap, event_finder).err
    /\ last' = [op |-> "drain",
                event |-> getNextEvent(events, heap, event_finder).event,
                time |-> None, symbiont |-> None,
                returned |-> IF getNextEvent(events, heap, event_finder).event = None
                             THEN last.returned
                             ELSE Append(last.returned,
                                         getNextEvent(events, heap, event_finder).event)]
    /\ UNCHANGED <<events, event_cnt, current_time, symbionts, cells, count, num_symbionts>>

NextReplace == Load \/ Replace \/ Drain

SpecReplace == InitCalendar /\ [][NextReplace]_vars

-----------------------------------------------------------------------------
(* Symbiont._setNextEvent alone: a symbiont whose five times are drawn is
   asked for its next event *)

MaxClock == 3                         \* the latest finite time of a clock

ClockTimes == 1..MaxClock \cup {INFINITY}

(* one call of _setNextEvent on a symbiont with the five times, and what
   getNextSymbiontEvent returns after it *)
nextEventCall(g0, g1sg2m, esc, dig, den) ==
    last' = [op |-> "_setNextEvent",
             time_of_next_end_g0 |-> g0, time_of_next_end_g1sg2m |-> g1sg2m,
             time_of_escape |-> esc, time_of_digestion |-> dig,
             time_of_denouement |-> den,
             next_event_time |->
                 setNextEvent([NewSymbiont(0, 1, 0, 0) EXCEPT
                                  !.time_of_next_end_g0 = g0,
                                  !.time_of_next_end_g1sg2m = g1sg2m,
                                  !.time_of_escape = esc,
                                  !.time_of_digestion = dig,
                                  !.time_of_denouement = den]).next_event_time,
             next_event_type |->
                 setNextEvent([NewSymbiont(0, 1, 0, 0) EXCEPT
                                  !.time_of_next_end_g0 = g0,
                                  !.time_of_next_end_g1sg2m = g1sg2m,
                                  !.time_of_escape = esc,
                                  !.time_of_digestion = dig,
                                  !.time_of_denouement = den]).next_event_type]

SetNext ==
    /\ last.op = "none"
    /\ \E g0 \in ClockTimes, g1sg2m \in ClockTimes, esc \in ClockTimes,
          dig \in ClockTimes, den \in ClockTimes :
          nextEventCall(g0, g1sg2m, esc, dig, den)
    /\ UNCHANGED <<heap, events, event_finder, event_cnt, current_time, err,
                   symbionts, cells, count, num_symbionts>>

SpecClocks == InitCalendar /\ [][SetNext]_vars

-----------------------------------------------------------------------------
(* Simulation.run with allow_typical_arrivals = True, from its start: the
   first arrival of the run is scheduled before the symbionts are placed and
   before the main loop.  The time is the exponential draw; the event has
   no symbiont.  insertEvent pushes the event on the heap and raises at
   event._symbiont.getID(), and run does not catch the exception, so the
   placement and the loop come after a step that ends the run. *)
MaxFirstArrival == 120

FirstArrivalTimes == 1..MaxFirstArrival

scheduleFirstArrival(time) ==
    /\ last.op = "none"
    /\ Commit(insertEventW(World, time, "ARRIVAL", None))
    /\ last' = Call("run", event_cnt, time, "ARRIVAL", None, None)
    /\ UNCHANGED <<current_time, num_symbionts>>

NextArrivals == \E time \in FirstArrivalTimes : scheduleFirstArrival(time)

SpecArrivals == InitCalendar /\ [][NextArrivals]_vars

-----------------------------------------------------------------------------
(* C1 *)

(* the rank of a kind among simultaneous events *)
C1_Rank(type) ==
    CASE type = "ESCAPE"     -> 1
      [] type = "DIGESTION"  -> 2
      [] type = "END_G0"     -> 3
      [] type = "END_G1SG2M" -> 4
      [] type = "DENOUEMENT" -> 5
      [] type = "ARRIVAL"    -> 6

(* event a comes no later than event b by (time, kind rank, creation number) *)
C1_Leq(a, b) ==
    \/ events[a].time < events[b].time
    \/ /\ events[a].time = events[b].time
       /\ C1_Rank(events[a].type) < C1_Rank(events[b].type)
    \/ /\ events[a].time = events[b].time
       /\ C1_Rank(events[a].type) = C1_Rank(events[b].type)
       /\ a <= b

(* C1: with inserts and pops only, a pop returns the least event of the
   heap by (time, kind rank, creation number), and a pop that follows a pop
   returns an event that is not smaller than the one before: events come
   out in non-decreasing order of that key. *)
C1_PopOrder ==
    [][(popNext /\ last'.event # None) =>
          /\ \A i \in 1..Len(heap) : C1_Leq(last'.event, heap[i])
          /\ (last.op = "pop" /\ last.event # None) => C1_Leq(last.event, last'.event)
      ]_vars

(* a pop has just followed a pop; the event returned was not the first
   inserted, and the heap still holds an event of the same time and
   another kind and an event of a later time *)
C1_Witness ==
    /\ last.op = "pop"
    /\ last.event # None
    /\ last.event > 0
    /\ \E i \in 1..Len(heap) : /\ events[heap[i]].time = last.time
                               /\ events[heap[i]].type # last.type
    /\ \E i \in 1..Len(heap) : events[heap[i]].time > last.time

-----------------------------------------------------------------------------
(* C2 *)

(* C2: the clock of the driver loop never decreases from one dispatched
   event to the next, whatever the handlers schedule, cancel or move with
   changeEventTime in between. *)
C2_ClockMonotone == [][current_time' >= current_time]_vars

(* the loop has dispatched an event whose time had been moved *)
C2_Witness ==
    /\ last.op = "pop"
    /\ last.event # None
    /\ current_time = last.time
    /\ current_time > 0
    /\ \E i \in 1..Len(heap) : events[heap[i]].time < current_time

-----------------------------------------------------------------------------
(* C3 *)

(* C3: a successful cancelEvent marks the event it found, a marked event
   stays marked, and no getNextEvent returns a marked event: once an event
   is cancelled no later pop returns it, with inserts, cancels and pops
   interleaved in any order. *)
C3_CancelledNeverReturned ==
    [][/\ (last'.op = "cancel" /\ last'.event # None /\ last' # last)
             => events'[last'.event].type = "CANCELLED"
       /\ \A e \in DOMAIN events :
             events[e].type = "CANCELLED" => events'[e].type = "CANCELLED"
       /\ (last'.op = "pop" /\ last'.event # None /\ last' # last)
             => events[last'.event].type # "CANCELLED"
      ]_vars

(* a pop has returned an event after skipping a cancelled one that was
   ahead of it in the order *)
C3_Witness ==
    /\ last.op = "pop"
    /\ last.event # None
    /\ \E e \in DOMAIN events :
          /\ events[e].type = "CANCELLED"
          /\ \A i \in 1..Len(heap) : heap[i] # e
          /\ events[e].time <= last.time
          /\ e < last.event
    /\ \E i \in 1..Len(heap) : events[heap[i]].type = "CANCELLED"

-----------------------------------------------------------------------------
(* C4 *)

(* C4: a successful changeEventTime changes only the time of the event it
   found; afterwards the event is found under the key with the new time
   and, when the time did change, no longer under the key with the old
   time. *)
C4_ChangeRekeys ==
    [][(last'.op = "change" /\ last'.event # None /\ last' # last) =>
          LET e == last'.event
              old_key == <<last'.time, last'.type, last'.symbiont>>
              new_key == <<last'.new_time, last'.type, last'.symbiont>>
          IN  /\ events'[e] = [events[e] EXCEPT !.time = last'.new_time]
              /\ new_key \in DOMAIN event_finder'
              /\ event_finder'[new_key] = e
              /\ (last'.new_time # last'.time) => old_key \notin DOMAIN event_finder'
      ]_vars

(* an event has been moved to another time *)
C4_Witness ==
    /\ last.op = "change"
    /\ last.event # None
    /\ last.new_time # last.time
    /\ events[last.event].time = last.new_time

-----------------------------------------------------------------------------
(* C5 *)

(* C5: getNextEvent on a calendar with no live event, the heap empty or
   holding cancelled entries only, returns None and raises nothing. *)
C5_NoneWhenNoLiveEvent ==
    [][(popNext /\ \A i \in 1..Len(heap) : events[heap[i]].type = "CANCELLED")
           => (err' = "" /\ last'.event = None)
      ]_vars

(* getNextEvent has been called on a non-empty heap of cancelled entries *)
C5_Witness ==
    /\ last.op = "pop"
    /\ last.event = None
    /\ heap = <<>>
    /\ \E e \in DOMAIN events : events[e].type = "CANCELLED"

-----------------------------------------------------------------------------
(* C6 *)
(* C6: in every state reached by addSymbiont and removeSymbiont calls no
   cell holds more occupants than its capacity, and an addSymbiont on a cell
   that is at its capacity raises AssertionError and leaves the cell's list
   of occupants as it was. *)
C6_Capacity ==
    /\ [](\A c \in Cells : Len(cells[c].symbionts) <= MaxPerCell)
    /\ [][(last'.op = "addSymbiont" /\ Len(cells[last'.cell].symbionts) = MaxPerCell)
             => (err' = "AssertionError" /\ cells' = cells)]_vars

C6_Witness ==
    /\ last.op = "addSymbiont"
    /\ err = "AssertionError"
    /\ Len(cells[last.cell].symbionts) = MaxPerCell

-----------------------------------------------------------------------------
(* C7 *)
(* C7: in every state reached by arrivals, divisions and exits, the
   occupants of a cell are all of one clade. *)
C7_OneCladePerCell ==
    \A c \in Cells : \A i, j \in 1..Len(cells[c].symbionts) :
        symbionts[cells[c].symbionts[i]].clade_number
            = symbionts[cells[c].symbionts[j]].clade_number

C7_Witness ==
    /\ last.op = "arrival"
    /\ err = ""
    /\ last.child # None
    /\ Len(cells[last.cell].symbionts) = 2

-----------------------------------------------------------------------------
(* C8 *)
(* C8: when endOfG1SG2M finds no open cell, the eviction coin decides: on the
   parent's side the handler returns PARENT_EVICTED, the parent is in no cell
   and the child is an occupant of the original cell; on the child's side it
   returns CHILD_EVICTED, the parent is still an occupant of the original
   cell and the child is in no cell. *)
C8_EvictionCoinDecides ==
    (last.op = "END_G1SG2M" /\ last.branch = "NO_OPEN_CELL") =>
        \/ /\ last.coin = "PARENT"
           /\ err = ""
           /\ last.status = "PARENT_EVICTED"
           /\ symbionts[last.symbiont].cell = None
           /\ \A c \in Cells : ~Contains(cells[c].symbionts, last.symbiont)
           /\ Contains(cells[last.cell].symbionts, last.child)
        \/ /\ last.coin = "CHILD"
           /\ err = ""
           /\ last.status = "CHILD_EVICTED"
           /\ Contains(cells[last.cell].symbionts, last.symbiont)
           /\ symbionts[last.child].cell = None
           /\ \A c \in Cells : ~Contains(cells[c].symbionts, last.child)

C8_Witness ==
    /\ last.op = "END_G1SG2M"
    /\ last.branch = "NO_OPEN_CELL"
    /\ last.coin = "PARENT"

-----------------------------------------------------------------------------
(* C9 *)
(* C9: a handler whose outcome is one of the expected branches raises
   nothing: a division that evicts, finds no affinity or infects outside the
   grid raises no UnboundLocalError, AttributeError or TypeError, and an
   endOfG0 whose projection goes negative raises no AttributeError. *)
C9_ExpectedBranchesComplete ==
    /\ (last.op = "END_G1SG2M" /\ last.branch \in {"NO_OPEN_CELL", "OUTSIDE", "NEIGHBOUR"})
          => err \notin {"UnboundLocalError", "AttributeError", "TypeError"}
    /\ last.op = "END_G0" => err # "AttributeError"

C9_Witness ==
    /\ last.op = "END_G1SG2M"
    /\ last.branch = "NEIGHBOUR"
    /\ last.status = "CHILD_NO_AFFINITY"
    /\ err = ""

-----------------------------------------------------------------------------
(* C10 *)
(* C10: after a division the child's bank and the parent's bank add up to
   the parent's bank before the copy; with no mutation the child has exactly
   half of it, and with a mutation the child's bank differs from the half by
   no more than the mutation's percentage of the half. *)
C10_BankConserved ==
    (last.op = "END_G1SG2M" /\ last.child # None) =>
        LET child == symbionts[last.child].photosynthate_surplus
            after == symbionts[last.symbiont].photosynthate_surplus
            half  == last.bank \div 2
            diff  == IF child < half THEN half - child ELSE child - half
        IN  /\ child + after = last.bank
            /\ last.mutation = "NO_MUTATION" => (child = half /\ 2 * child = last.bank)
            /\ last.mutation = "DELETERIOUS" => 100 * diff <= DeleteriousPct * half
            /\ last.mutation = "BENEFICIAL" => 100 * diff <= BeneficialPct * half

C10_Witness ==
    /\ last.op = "END_G1SG2M"
    /\ last.child # None
    /\ last.mutation = "DELETERIOUS"
    /\ last.bank > 0
    /\ err = ""

-----------------------------------------------------------------------------
(* C11 *)

(* C11: when endOfG1SG2M runs for a parent whose cell has spare capacity, it
   returns BOTH_STAY and a child; the child is added to the parent's cell,
   the parent stays in it, the cell has one occupant more and the occupants
   of every other cell are as before. *)
C11_SpareCapacityBothStay ==
    [][(/\ last'.op = "END_G1SG2M"
        /\ last'.cell # None
        /\ Len(cells[last'.cell].symbionts) < MaxPerCell)
       => /\ err' = ""
          /\ last'.status = "BOTH_STAY"
          /\ last'.child # None
          /\ symbionts'[last'.child].cell = last'.cell
          /\ symbionts'[last'.symbiont].cell = last'.cell
          /\ cells'[last'.cell].symbionts =
                 Append(cells[last'.cell].symbionts, last'.child)
          /\ Contains(cells'[last'.cell].symbionts, last'.symbiont)
          /\ \A c \in Cells \ {last'.cell} :
                 cells'[c].symbionts = cells[c].symbionts]_vars

(* a division in a cell with room has returned, and another cell is occupied *)
C11_Witness ==
    /\ last.op = "END_G1SG2M"
    /\ last.branch = "SAME_CELL"
    /\ last.status = "BOTH_STAY"
    /\ err = ""
    /\ Len(cells[last.cell].symbionts) = 2
    /\ \E c \in Cells \ {last.cell} : Len(cells[c].symbionts) > 0

-----------------------------------------------------------------------------
(* C12 *)

(* C12: when endOfG1SG2M runs and the search returns
   CELL_OUTSIDE_ENVIRONMENT, it returns PARENT_INFECTS_OUTSIDE with the child
   in the parent's cell and the parent in no cell, when the eviction coin is
   on the parent's side, and CHILD_INFECTS_OUTSIDE with the parent in its
   cell and the child in no cell otherwise; the cell has as many occupants as
   before and the occupants of every other cell are as before. *)
C12_OutsideCoinDecides ==
    [][(last'.op = "END_G1SG2M" /\ last'.branch = "OUTSIDE")
       => LET c == last'.cell
              p == last'.symbiont
              k == last'.child
          IN  /\ err' = ""
              /\ k # None
              /\ Len(cells'[c].symbionts) = Len(cells[c].symbionts)
              /\ \A o \in Cells \ {c} : cells'[o].symbionts = cells[o].symbionts
              /\ \/ /\ last'.coin = "PARENT"
                    /\ last'.status = "PARENT_INFECTS_OUTSIDE"
                    /\ symbionts'[p].cell = None
                    /\ ~Contains(cells'[c].symbionts, p)
                    /\ symbionts'[k].cell = c
                    /\ Contains(cells'[c].symbionts, k)
                 \/ /\ last'.coin = "CHILD"
                    /\ last'.status = "CHILD_INFECTS_OUTSIDE"
                    /\ symbionts'[p].cell = c
                    /\ Contains(cells'[c].symbionts, p)
                    /\ symbionts'[k].cell = None
                    /\ \A o \in Cells : ~Contains(cells'[o].symbionts, k)]_vars

(* the search returned CELL_OUTSIDE_ENVIRONMENT and the eviction coin came
   out on the parent's side *)
C12_Witness ==
    /\ last.op = "END_G1SG2M"
    /\ last.branch = "OUTSIDE"
    /\ last.coin = "PARENT"
    /\ last.child # None

-----------------------------------------------------------------------------
(* C13 *)

(* C13: when endOfG1SG2M runs and the search returns a cell of the grid
   other than the parent's, the eviction coin names the mover, the parent or
   the child, and the affinity coin decides: won, the mover is appended to
   the occupants of the open cell, the other one occupies the parent's cell
   and BOTH_STAY is returned; lost, the mover is in no cell, the occupants of
   the other cells are as before and PARENT_NO_AFFINITY or CHILD_NO_AFFINITY
   is returned. *)
C13_MoverNeedsAffinity ==
    [][(last'.op = "END_G1SG2M" /\ last'.branch = "NEIGHBOUR")
       => LET c == last'.cell
              p == last'.symbiont
              k == last'.child
              stayer == IF last'.coin = "PARENT" THEN k ELSE p
              mover  == IF last'.coin = "PARENT" THEN p ELSE k
          IN  /\ err' = ""
              /\ k # None
              /\ last'.coin \in {"PARENT", "CHILD"}
              /\ symbionts'[stayer].cell = c
              /\ Contains(cells'[c].symbionts, stayer)
              /\ ~Contains(cells'[c].symbionts, mover)
              /\ \/ /\ last'.status = "BOTH_STAY"
                    /\ \E o \in Cells \ {c} :
                          /\ symbionts'[mover].cell = o
                          /\ cells'[o].symbionts = Append(cells[o].symbionts, mover)
                          /\ \A x \in Cells \ {c, o} :
                                 cells'[x].symbionts = cells[x].symbionts
                 \/ /\ last'.status = IF last'.coin = "PARENT"
                                      THEN "PARENT_NO_AFFINITY" ELSE "CHILD_NO_AFFINITY"
                    /\ symbionts'[mover].cell = None
                    /\ \A x \in Cells : ~Contains(cells'[x].symbionts, mover)
                    /\ \A x \in Cells \ {c} :
                           cells'[x].symbionts = cells[x].symbionts]_vars

(* the search returned a neighbour, the eviction coin named the parent and
   the parent lost the affinity coin *)
C13_Witness ==
    /\ last.op = "END_G1SG2M"
    /\ last.branch = "NEIGHBOUR"
    /\ last.coin = "PARENT"
    /\ last.child # None
    /\ symbionts[last.symbiont].cell = None

(***************************************************************************)
(* C14: Sponge.checkForOpenAdjacentCell returns the origin cell itself      *)
(* whenever the origin has fewer occupants than it can hold: it does not    *)
(* go through the neighbours (a neighbour on which isRoomFor would fail     *)
(* does not matter), and the answer is never mapped outside the grid, even  *)
(* for a cell on the boundary when the coin falls on the outside.           *)
(***************************************************************************)
C14_OwnCellFirst ==
    (last.op = "checkForOpenAdjacentCell" /\ last.has_room)
        => last.result = [cell |-> last.cell, err |-> ""]

(* the origin has room, lies in a corner, has an open neighbour and a
   neighbour that fails the assertion, and the coin falls on the outside *)
C14_Witness ==
    /\ last.op = "checkForOpenAdjacentCell"
    /\ last.has_room
    /\ last.raises
    /\ last.outside
    /\ last.open # {}
    /\ Cardinality(last.neighbor_cells) = 3
    /\ last.result.cell = last.cell

(***************************************************************************)
(* C15: Sponge.checkForOpenAdjacentCell answers "outside the grid" only for *)
(* an origin with fewer neighbours than the structural maximum of its grid  *)
(* (8 or 26 on a square grid, 6 or 20 on a hexagonal one) and with at least *)
(* one open neighbour.  An origin with the maximum number of neighbours is  *)
(* never answered with the outside, and a full origin without an open       *)
(* neighbour is answered with no cell.                                      *)
(***************************************************************************)
C15_StructuralMax ==
    IF last.grid = "SQUARE"
    THEN (IF last.num_levels = 1 THEN 8 ELSE 26)
    ELSE (IF last.num_levels = 1 THEN 6 ELSE 20)

C15_OutsideOnlyAtBoundary ==
    last.op = "checkForOpenAdjacentCell" =>
        /\ last.result.cell = CELL_OUTSIDE_ENVIRONMENT
              => /\ Cardinality(last.neighbor_cells) < C15_StructuralMax
                 /\ last.open # {}
        /\ Cardinality(last.neighbor_cells) = C15_StructuralMax
              => last.result.cell # CELL_OUTSIDE_ENVIRONMENT
        /\ (last.open = {} /\ ~last.has_room /\ last.result.err = "")
              => last.result.cell = None

(* a full origin inside a hexagonal sponge of three levels: all 20
   neighbours, one of them open, and the coin falls on the outside *)
C15_Witness ==
    /\ last.op = "checkForOpenAdjacentCell"
    /\ last.grid = "HEX"
    /\ Cardinality(last.neighbor_cells) = 20
    /\ ~last.has_room
    /\ ~last.raises
    /\ last.outside
    /\ last.open # {}
    /\ last.result.cell \in last.open

(***************************************************************************)
(* C16: for an interval [t0, t1] and n occupants of the cell,              *)
(* _computeSurplusAtEventEnd computes the projected bank                    *)
(* bank + rate*(t1-t0) - (demand/n)*(t1-t0) - mitoticCostRate*(t1-t0),      *)
(* with the mitotic term charged exactly when the previous event of the    *)
(* symbiont is END_G0; a projection that is not negative comes with no      *)
(* digestion and no escape.  (The equation is multiplied by n.)            *)
(***************************************************************************)
C16_ProjectedBank ==
    last.op = "computeSurplusAtEventEnd" =>
        /\ last.result.surplus_at_end * last.num
              = (last.bank
                 + last.production_rate * (last.next_time - last.this_time)
                 - (IF last.prev_event_type = "END_G0"
                    THEN last.mitotic_cost_rate * (last.next_time - last.this_time)
                    ELSE 0)) * last.num
                - last.demand * (last.next_time - last.this_time)
        /\ last.result.surplus_at_end >= 0
              => /\ last.result.err = ""
                 /\ last.result.t_d = None
                 /\ last.result.t_ee = None

(* one occupant with production 1.0, demand 1.0 and bank 5.0 over 10 days
   projects 5.0 *)
C16_Witness ==
    /\ last.op = "computeSurplusAtEventEnd"
    /\ last.num = 1
    /\ last.production_rate = 2
    /\ last.demand = 2
    /\ last.bank = 10
    /\ last.next_time - last.this_time = 10
    /\ last.prev_event_type = "ARRIVAL"
    /\ last.result.surplus_at_end = 10
    /\ last.result.t_d = None

(***************************************************************************)
(* C17: when the projected bank at t1 is negative and the bank at t0 is    *)
(* not, _computeSurplusAtEventEnd computes a digestion time: the zero of   *)
(* the line through (t0, bank) and (t1, projected bank), with              *)
(* t0 <= digestion time < t1, and an escape time, when one is drawn, lies  *)
(* between t0 and the digestion time.                                      *)
(***************************************************************************)
C17_DigestionAtZeroCrossing ==
    (/\ last.op = "computeSurplusAtEventEnd"
     /\ last.result.surplus_at_end < 0
     /\ last.bank >= 0)
        => /\ last.result.err = ""
           /\ last.result.t_d # None
           /\ last.result.t_d_rem >= 0
           /\ last.result.t_d_rem < last.bank - last.result.surplus_at_end
           /\ last.bank * (last.next_time - last.this_time)
                         * (last.bank - last.result.surplus_at_end)
                + (last.result.surplus_at_end - last.bank)
                      * ((last.result.t_d - last.this_time)
                             * (last.bank - last.result.surplus_at_end)
                         + last.result.t_d_rem)
                = 0
           /\ last.this_time <= last.result.t_d
           /\ last.result.t_d < last.next_time
           /\ last.result.t_ee # None
                 => /\ last.this_time <= last.result.t_ee
                    /\ last.result.t_ee <= last.result.t_d

(* one occupant in G1SG2M with production 0.5, demand 1.0, no mitotic cost
   and bank 2.0 over 10 days: the projection is negative and no digestion
   time comes back *)
C17_Witness ==
    /\ last.op = "computeSurplusAtEventEnd"
    /\ last.prev_event_type = "END_G0"
    /\ last.num = 1
    /\ last.production_rate = 1
    /\ last.demand = 2
    /\ last.mitotic_cost_rate = 0
    /\ last.bank = 4
    /\ last.next_time - last.this_time = 10
    /\ last.result.surplus_at_end = -6
    /\ last.result.err = "AttributeError"

(***************************************************************************)
(* C18: Cell.isRoomFor, asked for a symbiont of a clade, returns true      *)
(* exactly when the cell is empty, or has fewer occupants than it can hold *)
(* and its occupants are of that clade; it returns false (and does not     *)
(* fail) for a full cell and for a cell with an occupant of another clade. *)
(* The method assigns nothing: the cell is as it was.                      *)
(***************************************************************************)
C18_RoomForOwnClade ==
    last.op = "isRoomFor" =>
        /\ last.result.err = ""
        /\ last.result.value
              <=> \/ Len(last.clades) = 0
                  \/ /\ Len(last.clades) < last.max_occupants
                     /\ \A i \in 1..Len(last.clades) : last.clades[i] = last.clade

(* generateArrival asks for a symbiont of clade 0 about a cell that holds 2
   and has one occupant, of clade 0: the answer is false *)
C18_Witness ==
    /\ last.op = "isRoomFor"
    /\ last.caller = "generateArrival"
    /\ last.max_occupants = 2
    /\ last.clades = <<0>>
    /\ last.clade = 0
    /\ last.result = [value |-> FALSE, err |-> ""]

(***************************************************************************)
(* C19: EventList.cancelEvent removes exactly one pending event: the       *)
(* number of live events (entries of the heap that are not cancelled and   *)
(* that the finder indexes) goes down by exactly one, and len(), the       *)
(* number of entries of the heap, cancelled ones included, is unchanged by *)
(* a cancel and goes down only in a pop.                                   *)
(***************************************************************************)
C19_Live(E, h, finder) ==
    {i \in 1..Len(h) : /\ E[h[i]].type # "CANCELLED"
                       /\ \E k \in DOMAIN finder : finder[k] = h[i]}

C19_CancelRemovesOneLive ==
    [][/\ (last'.op = "cancel" /\ err' = "")
            => /\ Cardinality(C19_Live(events', heap', event_finder'))
                    = Cardinality(C19_Live(events, heap, event_finder)) - 1
               /\ Len(heap') = Len(heap)
       /\ Len(heap') < Len(heap) => last'.op = "pop"]_vars

(* a cancel has gone through while another event stays pending *)
C19_Witness ==
    /\ last.op = "cancel"
    /\ err = ""
    /\ Len(heap) = 2
    /\ events[last.event].type = "CANCELLED"
    /\ Cardinality(C19_Live(events, heap, event_finder)) = 1

(***************************************************************************)
(* C20: EventList.cancelEvent and EventList.changeEventTime, called with a *)
(* (time, type, symbiont id) triple that the finder does not hold (never   *)
(* inserted, already popped or already cancelled), raise an error and      *)
(* leave the heap, the events in it and the finder as they were.           *)
(***************************************************************************)
C20_UnknownKeyRaises ==
    [][\A t \in Times, k \in CancelKinds :
          (/\ <<t, k, 0>> \notin DOMAIN event_finder
           /\ \/ cancelEvent(t, k, 0)
              \/ \E n \in Times : changeEventTime(t, n, k, 0))
              => /\ err' = "KeyError"
                 /\ heap' = heap
                 /\ events' = events
                 /\ event_finder' = event_finder]_vars

(* a cancel of an event that was cancelled before and is still in the heap
   has raised *)
C20_Witness ==
    /\ last.op = "cancel"
    /\ err = "KeyError"
    /\ heap # <<>>
    /\ events[heap[1]].type = "CANCELLED"
    /\ event_finder = <<>>

(***************************************************************************)
(* C21: the life-cycle events dispatched for a symbiont alternate: an      *)
(* END_G0 is dispatched only for a symbiont whose previous event is its    *)
(* ARRIVAL or an END_G1SG2M, an END_G1SG2M only for one whose previous     *)
(* event is an END_G0, and the handler that returns leaves its own event   *)
(* as the previous one.  The phase follows from the previous event, and a  *)
(* handler called in the other phase (endOfG0 in G1SG2M, endOfG1SG2M in    *)
(* G0) fails its assertion.                                                *)
(***************************************************************************)
C21_PhasesAlternate ==
    [][/\ last'.op = "END_G0"
            => /\ symbionts[last'.symbiont].prev_event_type \in {"ARRIVAL", "END_G1SG2M"}
               /\ getState(symbionts[last'.symbiont]) = "IN_G0"
               /\ err' = "" => symbionts'[last'.symbiont].prev_event_type = "END_G0"
       /\ last'.op = "END_G1SG2M"
            => /\ symbionts[last'.symbiont].prev_event_type = "END_G0"
               /\ getState(symbionts[last'.symbiont]) = "IN_G1SG2M"
               /\ err' = "" => symbionts'[last'.symbiont].prev_event_type = "END_G1SG2M"
       /\ \A s \in DOMAIN symbionts :
             symbionts[s].cell # None
                => IF symbionts[s].prev_event_type = "END_G0"
                   THEN endOfG0(World, s, current_time, NoDraw).err = "AssertionError"
                   ELSE endOfG1SG2M(World, s, current_time, NoDraw).err = "AssertionError"
      ]_vars

(* an END_G0 has been dispatched for a symbiont that has divided before and
   still has its child next to it *)
C21_Witness ==
    /\ last.op = "END_G0"
    /\ err = ""
    /\ last.symbiont = 0
    /\ count > 1
    /\ symbionts[0].prev_event_type = "END_G0"
    /\ symbionts[0].cell # None
    /\ Len(cells[symbionts[0].cell].symbionts) = 2

(***************************************************************************)
(* C22: the main loop of Simulation.run terminates.  It ends at the first  *)
(* event taken from the calendar whose time is at or after the end time,   *)
(* or when getNextEvent returns None, and it never dispatches an event     *)
(* whose time is at or after the end time.  (A run also stops when a       *)
(* handler raises, and the model stops a run at the division that would    *)
(* make one symbiont more than MaxSymbionts.)                              *)
(***************************************************************************)
C22_NextEvent == getNextEvent(events, heap, event_finder)

C22_Stopped == last.op = "end" \/ err # "" \/ ~CycleGoesOn

C22_LoopTerminates ==
    /\ [][/\ last'.op \in LiveTypes => (last'.time < CycleEndTime /\ last.op # "end")
          /\ (last'.op = "end" /\ last.op # "end")
                => \/ C22_NextEvent.event = None
                   \/ events[C22_NextEvent.event].time >= CycleEndTime
          /\ (/\ last'.op # "arrival"
              /\ C22_NextEvent.err = ""
              /\ \/ C22_NextEvent.event = None
                 \/ events[C22_NextEvent.event].time >= CycleEndTime)
                => last'.op = "end"]_vars
    /\ <>C22_Stopped

(* the loop has ended on an event at the end time while a symbiont is in
   its cell *)
C22_Witness ==
    /\ last.op = "end"
    /\ err = ""
    /\ current_time > 0
    /\ current_time < CycleEndTime
    /\ \E s \in DOMAIN symbionts :
          /\ symbionts[s].cell # None
          /\ symbionts[s].next_event_time >= CycleEndTime

(* C23: the list of neighbours that _getNeighborCells_square and
   _getNeighborCells_hex return holds only cells inside the sponge, at most
   one level away from the cell, never the cell itself and no cell twice;
   for a cell with every neighbour inside the sponge its length is the
   structural maximum: 8 or 26 in a square grid, 6 or 20 in a hexagonal one *)
C23_Interior ==
    /\ 0 < last.row /\ last.row < last.num_rows - 1
    /\ 0 < last.col /\ last.col < last.num_cols - 1
    /\ last.num_levels = 1 \/ (0 < last.level /\ last.level < last.num_levels - 1)

C23_NeighborList ==
    last.op = "getNeighborCells" =>
        /\ \A i \in 1..Len(last.neighbors) :
              /\ last.neighbors[i][1] \in 0..(last.num_levels - 1)
              /\ last.neighbors[i][2] \in 0..(last.num_rows - 1)
              /\ last.neighbors[i][3] \in 0..(last.num_cols - 1)
              /\ last.neighbors[i][1] - last.level \in -1..1
              /\ last.neighbors[i] # <<last.level, last.row, last.col>>
              /\ \A j \in 1..Len(last.neighbors) :
                    last.neighbors[i] = last.neighbors[j] => i = j
        /\ C23_Interior =>
              Len(last.neighbors) = IF last.grid = "SQUARE"
                                    THEN IF last.num_levels = 1 THEN 8 ELSE 26
                                    ELSE IF last.num_levels = 1 THEN 6 ELSE 20

(* an interior cell in an even row of a hexagonal sponge of several levels *)
C23_Witness ==
    /\ last.op = "getNeighborCells"
    /\ last.grid = "HEX"
    /\ last.num_levels > 1
    /\ last.row % 2 = 0
    /\ C23_Interior
    /\ Len(last.neighbors) = 20

(* C24: between two dispatches every occupant of a cell has exactly one live
   (not cancelled) event on the calendar, and the time and the type of that
   event are the occupant's next event time and type; no symbiont has more
   than one live event.  This holds after arrivals into occupied cells,
   divisions and exits. *)
C24_LiveEventsOf(s) ==
    {i \in 1..Len(heap) : /\ events[heap[i]].type # "CANCELLED"
                          /\ events[heap[i]].symbiont = s}

C24_OneLiveEventPerOccupant ==
    (err = "" /\ last.op # "end") =>
        /\ \A c \in Cells : \A k \in 1..Len(cells[c].symbionts) :
              /\ Cardinality(C24_LiveEventsOf(cells[c].symbionts[k])) = 1
              /\ \A i \in C24_LiveEventsOf(cells[c].symbionts[k]) :
                    /\ events[heap[i]].time = symbionts[cells[c].symbionts[k]].next_event_time
                    /\ events[heap[i]].type = symbionts[cells[c].symbionts[k]].next_event_type
        /\ \A s \in DOMAIN symbionts : Cardinality(C24_LiveEventsOf(s)) <= 1

(* an arrival into an occupied cell has left a resident, whose digestion or
   escape it cancelled, with no live event at all *)
C24_Witness ==
    /\ last.op = "arrival"
    /\ err = ""
    /\ last.cell # None
    /\ \E k \in 1..Len(cells[last.cell].symbionts) :
          /\ cells[last.cell].symbionts[k] # last.symbiont
          /\ C24_LiveEventsOf(cells[last.cell].symbionts[k]) = {}
          /\ symbionts[cells[last.cell].symbionts[k]].next_event_type \in LiveTypes

(* C25: every dispatched event (arrival, end of G0, end of G1SG2M, digestion,
   escape, denouement) at time t first commits the bank of every symbiont
   that is an occupant of the affected cell at dispatch, before the list of
   occupants changes and with the number of occupants as it was before the
   change; after it each of them has _prev_update_time = t.  A cell is
   affected when it is the cell of the event or when the dispatch changes
   its list of occupants. *)
C25_Dispatched == {"arrival", "END_G0", "END_G1SG2M", "DIGESTION", "ESCAPE", "DENOUEMENT"}

C25_CommittedAt(c, k) ==
    /\ symbionts'[cells[c].symbionts[k]].prev_update_time = current_time'
    /\ cells[c].symbionts[k] # last'.symbiont =>
          symbionts'[cells[c].symbionts[k]].photosynthate_surplus
              = computeSurplusAtEventEnd(
                    symbionts[cells[c].symbionts[k]],
                    symbionts[cells[c].symbionts[k]].prev_update_time,
                    current_time', Len(cells[c].symbionts), "no").surplus_at_end

C25_CommitBeforeChange ==
    [][(err' = "" /\ last'.op \in C25_Dispatched) =>
          \A c \in Cells :
              (c = last'.cell \/ cells'[c].symbionts # cells[c].symbionts) =>
                  \A k \in 1..Len(cells[c].symbionts) : C25_CommittedAt(c, k)]_vars

(* a division has moved the parent into a neighbouring cell whose occupant
   was last committed before the time of the division *)
C25_Witness ==
    /\ last.op = "END_G1SG2M"
    /\ err = ""
    /\ last.status = "BOTH_STAY"
    /\ last.branch = "NEIGHBOUR"
    /\ last.coin = "PARENT"
    /\ symbionts[last.symbiont].cell \in Cells
    /\ \E k \in 1..Len(cells[symbionts[last.symbiont].cell].symbionts) :
          symbionts[cells[symbionts[last.symbiont].cell].symbionts[k]].prev_update_time
              < current_time

(* C26: between two events every symbiont that is an occupant of a cell has
   _prev_update_time = _prev_event_time, also when it shares its cell with
   symbionts whose events were dispatched more recently *)
C26_UpdateTimeIsEventTime ==
    err = "" =>
        \A c \in Cells : \A k \in 1..Len(cells[c].symbionts) :
            symbionts[cells[c].symbionts[k]].prev_update_time
                = symbionts[cells[c].symbionts[k]].prev_event_time

(* an occupant whose bank was committed at an event of another occupant of
   its cell, after its own last event *)
C26_Witness ==
    /\ err = ""
    /\ last.op = "END_G0"
    /\ last.cell \in Cells
    /\ \E k \in 1..Len(cells[last.cell].symbionts) :
          /\ cells[last.cell].symbionts[k] # last.symbiont
          /\ symbionts[cells[last.cell].symbionts[k]].prev_update_time = current_time
          /\ symbionts[cells[last.cell].symbionts[k]].prev_event_time < current_time

(* C27: no commit of the banks drives the bank of an occupant below zero:
   when the handler of an event at t commits the occupants of the event's
   cell, the projection of each of them to t is not negative, so that the
   assertion of _projectSurplusForAll ("digestion or escape is warranted")
   is not tripped *)
C27_Handled == {"END_G0", "END_G1SG2M", "DIGESTION", "ESCAPE", "DENOUEMENT"}

C27_ProjectionAt(c, k, t) ==
    computeSurplusAtEventEnd(symbionts[cells[c].symbionts[k]],
                             symbionts[cells[c].symbionts[k]].prev_update_time,
                             t, Len(cells[c].symbionts), "no").surplus_at_end

C27_NoNegativeCommit ==
    [][(last'.op \in C27_Handled /\ last'.cell \in Cells) =>
          \A k \in 1..Len(cells[last'.cell].symbionts) :
              C27_ProjectionAt(last'.cell, k, current_time') >= 0]_vars

(* the handler of an end of G0 has raised in its commit: the bank of an
   occupant of the cell, projected to the time of the event, is negative *)
C27_Witness ==
    /\ last.op = "END_G0"
    /\ err = "AssertionError"
    /\ last.cell \in Cells
    /\ symbionts[last.symbiont].prev_event_type \in {"ARRIVAL", "END_G1SG2M"}
    /\ \E k \in 1..Len(cells[last.cell].symbionts) :
          C27_ProjectionAt(last.cell, k, current_time) < 0

(* C28: after a digestion, an escape or a denouement has removed a symbiont
   from its cell, every occupant left whose pending event is a digestion or
   an escape and whose new projection, the one _symbiontExitFromCell
   computes for it, is negative has the time of that event changed in place
   to the new crossing: the new time is not later than the old one, and the
   symbiont's next event time and the entry of the calendar hold the same
   new time *)
C28_Exits == {"DIGESTION", "ESCAPE", "DENOUEMENT"}

C28_Projection(s) ==
    computeSurplusAtEventEnd(symbionts'[last'.symbiont], current_time',
                             symbionts[s].next_event_time,
                             Len(cells'[last'.cell].symbionts), "no").surplus_at_end

C28_OnCalendar(s) ==
    \E i \in 1..Len(heap') :
        events'[heap'[i]] = [time     |-> symbionts'[s].next_event_time,
                             type     |-> symbionts[s].next_event_type,
                             symbiont |-> s]

C28_TightenedInPlace ==
    [][(/\ last'.op \in C28_Exits
        /\ last'.cell \in Cells
        /\ ~Contains(cells'[last'.cell].symbionts, last'.symbiont))
          => \A k \in 1..Len(cells'[last'.cell].symbionts) :
                (/\ symbionts[cells'[last'.cell].symbionts[k]].next_event_type
                        \in {"DIGESTION", "ESCAPE"}
                 /\ C28_Projection(cells'[last'.cell].symbionts[k]) < 0)
                  => /\ err' = ""
                     /\ symbionts'[cells'[last'.cell].symbionts[k]].next_event_time
                            <= symbionts[cells'[last'.cell].symbionts[k]].next_event_time
                     /\ C28_OnCalendar(cells'[last'.cell].symbionts[k])]_vars

(* a denouement has raised at the call of changeEventTime: the occupant left
   has a new next event time and the calendar holds its digestion at the old
   time *)
C28_Witness ==
    /\ last.op \in C28_Exits
    /\ err = "TypeError"
    /\ last.cell \in Cells
    /\ \E k \in 1..Len(cells[last.cell].symbionts) :
          /\ symbionts[cells[last.cell].symbionts[k]].next_event_type = "DIGESTION"
          /\ \E i \in 1..Len(heap) :
                /\ events[heap[i]].symbiont = cells[last.cell].symbionts[k]
                /\ events[heap[i]].type = "DIGESTION"
                /\ events[heap[i]].time
                      > symbionts[cells[last.cell].symbionts[k]].next_event_time

(* C29: after a digestion, an escape or a denouement has removed a symbiont
   from its cell, every occupant s left whose pending event is an end of G0
   or an end of G1SG2M and whose own projection to that event (the bank and
   the rates of s, the number of occupants left) is negative has that event
   cancelled in the calendar and a digestion or an escape scheduled: the
   digestion or escape time of s is finite and the next event of s is of
   that type.  An occupant whose projection is not negative keeps its
   schedule. *)
C29_OwnProjection(s) ==
    computeSurplusAtEventEnd(symbionts'[s], current_time',
                             symbionts[s].next_event_time,
                             Len(cells'[last'.cell].symbionts), "no").surplus_at_end

C29_Pending(s) ==
    \E i \in 1..Len(heap') :
        events'[heap'[i]] = [time     |-> symbionts[s].next_event_time,
                             type     |-> symbionts[s].next_event_type,
                             symbiont |-> s]

C29_Rescheduled(s) ==
    /\ err' = ""
    /\ ~C29_Pending(s)
    /\ \/ /\ symbionts'[s].next_event_type = "DIGESTION"
          /\ symbionts'[s].time_of_digestion < INFINITY
       \/ /\ symbionts'[s].next_event_type = "ESCAPE"
          /\ symbionts'[s].time_of_escape < INFINITY

C29_ScheduleKept(s) ==
    /\ symbionts'[s].next_event_time = symbionts[s].next_event_time
    /\ symbionts'[s].next_event_type = symbionts[s].next_event_type
    /\ symbionts'[s].time_of_digestion = symbionts[s].time_of_digestion
    /\ symbionts'[s].time_of_escape = symbionts[s].time_of_escape
    /\ symbionts'[s].time_of_next_end_g0 = symbionts[s].time_of_next_end_g0
    /\ symbionts'[s].time_of_next_end_g1sg2m = symbionts[s].time_of_next_end_g1sg2m

C29_ExitReschedules ==
    [][(/\ last'.op \in {"DIGESTION", "ESCAPE", "DENOUEMENT"}
        /\ last'.cell \in Cells
        /\ ~Contains(cells'[last'.cell].symbionts, last'.symbiont))
          => \A k \in 1..Len(cells'[last'.cell].symbionts) :
                /\ (/\ symbionts[cells'[last'.cell].symbionts[k]].next_event_type
                           \in {"END_G0", "END_G1SG2M"}
                    /\ C29_OwnProjection(cells'[last'.cell].symbionts[k]) < 0)
                      => C29_Rescheduled(cells'[last'.cell].symbionts[k])
                /\ C29_OwnProjection(cells'[last'.cell].symbionts[k]) >= 0
                      => C29_ScheduleKept(cells'[last'.cell].symbionts[k])]_vars

(* a denouement has left in the cell an occupant that keeps its end of G0
   although its bank, projected to that event, is negative *)
C29_Witness ==
    /\ last.op = "DENOUEMENT"
    /\ err = ""
    /\ last.cell \in Cells
    /\ \E k \in 1..Len(cells[last.cell].symbionts) :
          /\ symbionts[cells[last.cell].symbionts[k]].next_event_type = "END_G0"
          /\ symbionts[cells[last.cell].symbionts[k]].time_of_digestion = INFINITY
          /\ computeSurplusAtEventEnd(
                 symbionts[cells[last.cell].symbionts[k]], current_time,
                 symbionts[cells[last.cell].symbionts[k]].next_event_time,
                 Len(cells[last.cell].symbionts), "no").surplus_at_end < 0

(* C30: exits are absorbing.  A symbiont that was digested, that escaped,
   that reached its denouement or that was discarded at a division (evicted,
   without affinity, outside the grid) is in the list of no cell; once a
   symbiont is in no cell, no event of it is dispatched and it enters no
   cell again. *)
C30_InNoCell(s) == \A c \in Cells : ~Contains(cells[c].symbionts, s)

C30_InNoCellAfter(s) == \A c \in Cells : ~Contains(cells'[c].symbionts, s)

C30_ChildLeaves == {"CHILD_INFECTS_OUTSIDE", "CHILD_EVICTED", "CHILD_NO_AFFINITY"}

C30_ParentLeaves == {"PARENT_INFECTS_OUTSIDE", "PARENT_EVICTED", "PARENT_NO_AFFINITY"}

C30_ExitsAbsorbing ==
    [][/\ \A s \in DOMAIN symbionts :
             C30_InNoCell(s) =>
                 /\ C30_InNoCellAfter(s)
                 /\ ~(last'.op \in C27_Handled /\ last'.symbiont = s)
       /\ (err' = "" /\ last'.op \in C28_Exits) => C30_InNoCellAfter(last'.symbiont)
       /\ (err' = "" /\ last'.op = "END_G1SG2M" /\ last'.status \in C30_ChildLeaves)
             => C30_InNoCellAfter(last'.child)
       /\ (err' = "" /\ last'.op = "END_G1SG2M" /\ last'.status \in C30_ParentLeaves)
             => C30_InNoCellAfter(last'.symbiont)]_vars

(* an event of an occupant has been dispatched after another symbiont left
   the sponge at its digestion, escape or denouement *)
C30_Witness ==
    /\ last.op \in C27_Handled
    /\ err = ""
    /\ \E s \in DOMAIN symbionts :
          /\ s # last.symbiont
          /\ C30_InNoCell(s)
          /\ symbionts[s].next_event_type \in C28_Exits
          /\ symbionts[s].prev_update_time = symbionts[s].next_event_time

-----------------------------------------------------------------------------
(* C31: the bank recorded at an exit.  When a DIGESTION or an ESCAPE has
   been handled and the symbiont is out of its cell, its bank is zero; when
   a DENOUEMENT has been handled and the symbiont is out of its cell, its
   bank is the bank committed at the time of the event (its bank at its
   last update plus production less its share of the demand over the time
   since that update, counted once), and that bank is not negative. *)
C31_Left(s) == \A c \in Cells : ~Contains(cells'[c].symbionts, s)

C31_Committed(s, now) ==
    computeSurplusAtEventEnd(symbionts[s], symbionts[s].prev_update_time, now,
                             Len(cells[symbionts[s].cell].symbionts), "no").surplus_at_end

C31_ExitBank ==
    [][/\ (last'.op \in {"DIGESTION", "ESCAPE"} /\ C31_Left(last'.symbiont))
             => symbionts'[last'.symbiont].photosynthate_surplus = 0
       /\ (last'.op = "DENOUEMENT" /\ C31_Left(last'.symbiont))
             => /\ symbionts'[last'.symbiont].photosynthate_surplus
                      = C31_Committed(last'.symbiont, last'.time)
                /\ symbionts'[last'.symbiont].photosynthate_surplus >= 0]_vars

(* a symbiont whose bank grew between its last event and its denouement has
   left its cell at the denouement *)
C31_Witness ==
    /\ last.op = "DENOUEMENT"
    /\ \A c \in Cells : ~Contains(cells[c].symbionts, last.symbiont)
    /\ symbionts[last.symbiont].prev_event_time < last.time
    /\ symbionts[last.symbiont].photosynthate_surplus > 0

-----------------------------------------------------------------------------
(* C32: the cached times after a handler.  When the handler of an arrival or
   of an event has returned, the _next_event_time of every cell is the least
   next event time of its occupants, INFINITY for a cell that was emptied
   (a cell no symbiont has entered yet has no cached time), and the next
   event time of every occupant is the least of its five clocks. *)
C32_Min(a, b) == IF a < b THEN a ELSE b

C32_Clocks(s) ==
    C32_Min(s.time_of_next_end_g0,
            C32_Min(s.time_of_next_end_g1sg2m,
                    C32_Min(s.time_of_escape,
                            C32_Min(s.time_of_digestion, s.time_of_denouement))))

C32_CellMin(c) ==
    IF cells[c].symbionts = <<>> THEN INFINITY
    ELSE CHOOSE t \in {symbionts[cells[c].symbionts[k]].next_event_time :
                          k \in 1..Len(cells[c].symbionts)} :
             \A k \in 1..Len(cells[c].symbionts) :
                 t <= symbionts[cells[c].symbionts[k]].next_event_time

C32_CellCached(c) ==
    \/ cells[c].next_event_time = C32_CellMin(c)
    \/ cells[c].symbionts = <<>> /\ cells[c].next_event_time = None

C32_OccupantsCached(c) ==
    \A k \in 1..Len(cells[c].symbionts) :
        symbionts[cells[c].symbionts[k]].next_event_time
            = C32_Clocks(symbionts[cells[c].symbionts[k]])

C32_CachedTimes ==
    (err = "" /\ last.op \in {"arrival", "END_G0", "END_G1SG2M", "DIGESTION",
                              "ESCAPE", "DENOUEMENT"})
        => \A c \in Cells : C32_CellCached(c) /\ C32_OccupantsCached(c)

(* an arrival has entered an occupied cell and the projection it made gave
   an occupant a digestion time earlier than the occupant's next event *)
C32_Witness ==
    /\ last.op = "arrival"
    /\ err = ""
    /\ last.cell # None
    /\ Len(cells[last.cell].symbionts) > 1
    /\ \E k \in 1..Len(cells[last.cell].symbionts) :
          /\ cells[last.cell].symbionts[k] # last.symbiont
          /\ symbionts[cells[last.cell].symbionts[k]].time_of_digestion
                < symbionts[cells[last.cell].symbionts[k]].next_event_time

-----------------------------------------------------------------------------
(* C33: the next event of a symbiont.  After _setNextEvent the next event
   time is the least of the five times of the symbiont, and the next event
   type is the kind of a time that is the least; of several kinds whose
   times are the least, it is the one that comes first in the order ESCAPE,
   DIGESTION, END_G0, END_G1SG2M, DENOUEMENT, the order of simultaneous
   events on the calendar. *)
C33_TimeOf(kind) ==
    CASE kind = "ESCAPE"     -> last.time_of_escape
      [] kind = "DIGESTION"  -> last.time_of_digestion
      [] kind = "END_G0"     -> last.time_of_next_end_g0
      [] kind = "END_G1SG2M" -> last.time_of_next_end_g1sg2m
      [] kind = "DENOUEMENT" -> last.time_of_denouement

C33_Kinds == {"ESCAPE", "DIGESTION", "END_G0", "END_G1SG2M", "DENOUEMENT"}

C33_NextEventByPriority ==
    last.op = "_setNextEvent" =>
        /\ last.next_event_type \in C33_Kinds
        /\ last.next_event_time = C33_TimeOf(last.next_event_type)
        /\ \A k \in C33_Kinds : last.next_event_time <= C33_TimeOf(k)
        /\ \A k \in C33_Kinds :
              C33_TimeOf(k) = last.next_event_time
                  => EventTypeValue(last.next_event_type) <= EventTypeValue(k)

(* the end of G0 and a digestion of the symbiont are at the same time, the
   least of the five *)
C33_Witness ==
    /\ last.op = "_setNextEvent"
    /\ last.time_of_next_end_g0 = last.time_of_digestion
    /\ last.time_of_digestion < INFINITY
    /\ last.next_event_time = last.time_of_digestion

-----------------------------------------------------------------------------
(* C34: the first event of an arrival.  After a symbiont has arrived at time
   t with the end of its first G0 at d, its deadline is d, or its denouement
   when that is earlier.  If its bank projected from t to the deadline, with
   the demand of the cell shared by the occupants, is not negative, its next
   event is the END_G0 or the DENOUEMENT at the deadline; if the projected
   bank is negative, its next event is a DIGESTION at the time its bank
   reaches zero or an ESCAPE between t and that time, before d. *)
C34_Deadline(s) ==
    IF s.time_of_denouement < s.time_of_next_end_g0
    THEN s.time_of_denouement ELSE s.time_of_next_end_g0

C34_Projected(s, t) ==
    computeSurplusAtEventEnd(s, t, C34_Deadline(s), Len(cells[s.cell].symbionts), "no")

C34_AtDeadline(s) ==
    /\ s.next_event_time = C34_Deadline(s)
    /\ \/ s.next_event_type = "END_G0" /\ s.time_of_next_end_g0 = C34_Deadline(s)
       \/ s.next_event_type = "DENOUEMENT" /\ s.time_of_denouement = C34_Deadline(s)

C34_ExitBefore(s, t, t_d) ==
    /\ s.next_event_time < s.time_of_next_end_g0
    /\ \/ s.next_event_type = "DIGESTION" /\ s.next_event_time = t_d
       \/ s.next_event_type = "ESCAPE" /\ t <= s.next_event_time
                                       /\ s.next_event_time <= t_d

C34_FirstEvent ==
    (last.op = "arrival" /\ err = "" /\ last.symbiont # None)
        => IF C34_Projected(symbionts[last.symbiont], last.time).surplus_at_end < 0
           THEN C34_ExitBefore(symbionts[last.symbiont], last.time,
                               C34_Projected(symbionts[last.symbiont], last.time).t_d)
           ELSE C34_AtDeadline(symbionts[last.symbiont])

(* a symbiont has arrived in an occupied cell with a bank that does not
   last to the end of its G0 *)
C34_Witness ==
    /\ last.op = "arrival"
    /\ err = ""
    /\ last.symbiont # None
    /\ Len(cells[last.cell].symbionts) > 1
    /\ C34_Projected(symbionts[last.symbiont], last.time).surplus_at_end < 0

-----------------------------------------------------------------------------
(* C35: every occupant leaves by its denouement.  As long as no handler has
   raised, no symbiont is in the list of a cell at a time of the run later
   than its denouement time: by then it was digested, it escaped, it was
   discarded at a division or its DENOUEMENT was dispatched, whatever the
   arrivals and the exits of its co-occupants did to its events. *)
C35_Occupants == {s \in DOMAIN symbionts : \E c \in Cells : Contains(cells[c].symbionts, s)}

C35_LeavesByDenouement ==
    err = "" => \A s \in C35_Occupants : current_time <= symbionts[s].time_of_denouement

(* an event has been dispatched at a time when a symbiont that shared its
   cell with another has left the sponge at or before its denouement time *)
C35_Witness ==
    /\ err = ""
    /\ last.op \in {"DIGESTION", "ESCAPE", "DENOUEMENT"}
    /\ last.cell # None
    /\ cells[last.cell].symbionts # <<>>
    /\ last.symbiont \notin C35_Occupants
    /\ last.time <= symbionts[last.symbiont].time_of_denouement

-----------------------------------------------------------------------------
(* C36: the cell that checkForOpenAdjacentCell returns.  A cell of the
   sponge other than the cell of the search is returned only if it is a
   neighbour of that cell (at most one level, one row and one column away)
   and is empty or has fewer occupants than it holds, all of the clade asked
   for; no cell is returned only when the cell of the search is full and no
   neighbour is empty or has room for the clade.  The call returns a cell
   and assigns nothing: the occupants of every cell are what they were. *)
C36_LevelOf(n) == (n - 1) \div (last.num_rows * last.num_cols)

C36_RowOf(n) == ((n - 1) % (last.num_rows * last.num_cols)) \div last.num_cols

C36_ColOf(n) == (n - 1) % last.num_cols

C36_Adjacent(n) ==
    /\ n # last.cell
    /\ C36_LevelOf(n) - last.level \in -1..1
    /\ C36_RowOf(n) - last.row \in -1..1
    /\ C36_ColOf(n) - last.col \in -1..1

C36_Neighbour(n) ==
    IF last.grid = "SQUARE" THEN C36_Adjacent(n) ELSE n \in last.neighbor_cells

C36_HasRoom(n) ==
    \/ last.clades[n] = <<>>
    \/ /\ Len(last.clades[n]) < NearMaxOccupants
       /\ \A i \in 1..Len(last.clades[n]) : last.clades[n][i] = last.which_clade

C36_OpenNeighbourOrNone ==
    (last.op = "checkForOpenAdjacentCell" /\ last.result.err = "") =>
        /\ (last.result.cell \notin {None, CELL_OUTSIDE_ENVIRONMENT, last.cell})
              => /\ last.result.cell \in DOMAIN last.clades
                 /\ C36_Adjacent(last.result.cell)
                 /\ C36_HasRoom(last.result.cell)
        /\ last.result.cell = None
              => /\ Len(last.clades[last.cell]) = NearMaxOccupants
                 /\ \A n \in DOMAIN last.clades : C36_Neighbour(n) => ~C36_HasRoom(n)

(* the cell of the search is full; of its three neighbours one is full, one
   holds another clade, and the one with room for the clade is returned *)
C36_Witness ==
    /\ last.op = "checkForOpenAdjacentCell"
    /\ last.result.err = ""
    /\ ~last.has_room
    /\ Cardinality(last.neighbor_cells) = 3
    /\ Cardinality(last.open) = 1
    /\ last.result.cell \in last.open
    /\ last.clades[last.result.cell] = <<last.which_clade>>
    /\ \E n \in last.neighbor_cells : Len(last.clades[n]) = NearMaxOccupants

-----------------------------------------------------------------------------
(* C37: the calendar after a cancel and a replacement.  After pending events
   were cancelled and replaced by an event of the same symbiont at the same
   time and of another kind, the loop that empties the calendar with
   getNextEvent returns no cancelled event, returns the events in the order
   of the calendar and none of them twice; and the loop ends, with None
   returned and no exception, when every event that is not cancelled has
   been returned and the heap and the finder are empty. *)
C37_InOrder ==
    \A i \in 1..Len(last.returned) : \A j \in 1..Len(last.returned) :
        i < j => /\ last.returned[i] # last.returned[j]
                 /\ ~EventLt(events, last.returned[j], last.returned[i])

C37_DrainedAll ==
    /\ err = ""
    /\ heap = <<>>
    /\ event_finder = <<>>
    /\ \A e \in DOMAIN events :
          events[e].type # "CANCELLED"
              => \E i \in 1..Len(last.returned) : last.returned[i] = e

C37_DrainAfterReplace ==
    last.op = "drain" =>
        /\ \A i \in 1..Len(last.returned) : events[last.returned[i]].type # "CANCELLED"
        /\ C37_InOrder
        /\ last.event = None => C37_DrainedAll

(* the loop has ended with None after it returned a replacement and, later,
   an event that was never cancelled, and passed over a cancelled one *)
C37_Witness ==
    /\ last.op = "drain"
    /\ last.event = None
    /\ err = ""
    /\ heap = <<>>
    /\ Len(last.returned) >= 2
    /\ events[last.returned[1]].type = "DIGESTION"
    /\ events[last.returned[Len(last.returned)]].type = "END_G0"
    /\ \E e \in DOMAIN events : events[e].type = "CANCELLED"

-----------------------------------------------------------------------------
(* C38: the population counters.  After every arrival and every dispatched
   event whose handler returned, _num_symbionts is the number of occupants
   of all the cells, and what the loop added to the counter of each clade is
   the change in the number of occupants of that clade, so that each counter
   is the number of occupants of its clade: one more after an arrival that
   was placed and after BOTH_STAY, one less after a digestion, an escape and
   a denouement, the same after the other outcomes of a division and after
   an end of G0. *)
C38_Of(S, C, k) ==
    Cardinality({p \in Cells \X (1..MaxPerCell) :
                    /\ p[2] <= Len(C[p[1]].symbionts)
                    /\ S[C[p[1]].symbionts[p[2]]].clade_number = k})

C38_All(C) ==
    Cardinality({p \in Cells \X (1..MaxPerCell) : p[2] <= Len(C[p[1]].symbionts)})

C38_Ops == {"arrival", "END_G0", "END_G1SG2M", "DIGESTION", "ESCAPE", "DENOUEMENT"}

C38_Counted ==
    IF last'.type = "END_G1SG2M" THEN last'.child ELSE last'.symbiont

C38_CladeCounted ==
    IF C38_Counted = None THEN None ELSE symbionts'[C38_Counted].clade_number

C38_CountersAreOccupants ==
    [][(err' = "" /\ last'.op \in C38_Ops) =>
          /\ num_symbionts' = C38_All(cells')
          /\ num_symbionts = C38_All(cells)
          /\ \A k \in 0..(NumClades - 1) :
                C38_Of(symbionts', cells', k) - C38_Of(symbionts, cells, k)
                    = perCladeChange(last'.type, last'.status, C38_CladeCounted, k)
          /\ num_symbionts' - num_symbionts =
                IF last'.op = "arrival" /\ last'.symbiont # None THEN 1
                ELSE IF last'.op = "END_G1SG2M" /\ last'.status = "BOTH_STAY" THEN 1
                ELSE IF last'.op \in {"DIGESTION", "ESCAPE", "DENOUEMENT"} THEN -1
                ELSE 0]_vars

(* occupants of two clades are counted after a division with BOTH_STAY *)
C38_Witness ==
    /\ err = ""
    /\ last.op = "END_G1SG2M"
    /\ last.status = "BOTH_STAY"
    /\ C38_Of(symbionts, cells, 0) > 0
    /\ C38_Of(symbionts, cells, 1) > 0
    /\ num_symbionts = 3

-----------------------------------------------------------------------------
(* C39: with pool arrivals enabled, once the first arrival has been
   scheduled before the loop the run goes on with exactly one ARRIVAL
   event, carrying no symbiont, pending in the calendar: the event is on
   the heap and in the finder and no exception has ended the run. *)
C39_PendingArrivals ==
    {n \in DOMAIN events :
        /\ events[n].type = "ARRIVAL"
        /\ events[n].symbiont = None
        /\ \E i \in 1..Len(heap) : heap[i] = n}

C39_OneArrivalPending ==
    last.op = "run" =>
        /\ err = ""
        /\ Cardinality(C39_PendingArrivals) = 1
        /\ \E k \in DOMAIN event_finder : k[2] = "ARRIVAL"

(* the first arrival was pushed on the heap and the insert raised *)
C39_Witness ==
    /\ last.op = "run"
    /\ last.type = "ARRIVAL"
    /\ Cardinality(C39_PendingArrivals) = 1
    /\ err = "AttributeError"

====
